---- MODULE Spec2Model ----
(***************************************************************************)
(* A model of clean-dev-dirs: the scanner (walk, pruning, classification,  *)
(* sizing), the inner_main pipeline, the parallel Cleaner and              *)
(* executables::preserve_executables, over an explicit file system.        *)
(*                                                                         *)
(* A path is a sequence of component names; the file system `fs` is a      *)
(* function from the existing paths to their nodes.  A file's `data` is a  *)
(* content tag: every file starts with its own path as content, so a copy  *)
(* can be told from the original.                                          *)
(***************************************************************************)
EXTENDS Integers, Sequences, FiniteSets, TLC

VARIABLES
    fs,                 \* the file system: path -> node
    fs0,                \* the file system as it was when the run began (never written)
    trash,              \* build directories moved to the platform trash
    locked,             \* directories the environment refuses to remove
    execution_options,  \* ExecutionOptions {dry_run, interactive, keep_executables, use_trash}
    projects,           \* the Projects handed to Cleaner::clean_projects
    worker,             \* per project: the closure of into_par_iter().for_each
    cleaned_size,       \* Arc<Mutex<u64>>
    errors,             \* Arc<Mutex<Vec<String>>>, here the failed build paths with reasons
    summary,            \* the summary clean_projects prints after the join
    scan_options,       \* ScanOptions {skip, ..}
    project_filter,     \* ProjectFilter
    scan,               \* Scanner::scan_directory: its phase and intermediate vectors
    filter_options,     \* FilterOptions {keep_size, keep_days}
    main,               \* inner_main: its position and local vectors
    preserver,          \* executables::preserve_executables: its position and locals
    sizer               \* calculate_build_dir_size / calculate_directory_size: the walk

scanVars == <<scan_options, project_filter, scan>>

mainVars == <<filter_options, main, preserver, sizer>>

vars == <<fs, fs0, trash, locked, execution_options, projects, worker,
          cleaned_size, errors, summary, scanVars, mainVars>>

(***************************************************************************)
(* Bounds                                                                  *)
(***************************************************************************)
NProj == 2
MaxRuns == 2

(***************************************************************************)
(* Generic helpers                                                         *)
(***************************************************************************)
RECURSIVE SumOver(_, _)
SumOver(S, f) ==
    IF S = {} THEN 0
    ELSE LET x == CHOOSE y \in S : TRUE IN f[x] + SumOver(S \ {x}, f)

RECURSIVE SeqSum(_)
SeqSum(s) == IF s = <<>> THEN 0 ELSE Head(s) + SeqSum(Tail(s))

Range(s) == {s[k] : k \in DOMAIN s}

(***************************************************************************)
(* The file system                                                         *)
(***************************************************************************)
\* age: whole days since the node was last modified; exec: a bit of 0o111 is
\* set in the mode; readonly: no write bit is set in the mode; unreadable: a
\* directory whose entries cannot be listed
Dir == [type |-> "dir", size |-> 0, exec |-> FALSE, data |-> <<>>, age |-> 0,
        readonly |-> FALSE, unreadable |-> FALSE]
File(sz, x, d) == [type |-> "file", size |-> sz, exec |-> x, data |-> d, age |-> 0,
                   readonly |-> FALSE, unreadable |-> FALSE]
\* a symbolic link whose target is missing: neither a file nor a directory
BrokenLink == [type |-> "symlink", size |-> 1, exec |-> FALSE, data |-> <<>>, age |-> 0,
               readonly |-> FALSE, unreadable |-> FALSE]

IsPrefix(p, q) == Len(p) <= Len(q) /\ SubSeq(q, 1, Len(p)) = p

join(p, name) == Append(p, name)
parent(p) == SubSeq(p, 1, Len(p) - 1)
file_name(p) == p[Len(p)]

exists(f, p) == p \in DOMAIN f
is_dir(f, p) == p \in DOMAIN f /\ f[p].type = "dir"
is_file(f, p) == p \in DOMAIN f /\ f[p].type = "file"

\* std::fs::read_dir: the entries directly inside a directory
read_dir(f, d) == {q \in DOMAIN f : Len(q) = Len(d) + 1 /\ IsPrefix(d, q)}

\* walkdir::WalkDir::new(p): p itself and everything below it
WalkDir(f, p) == {q \in DOMAIN f : IsPrefix(p, q)}

\* std::fs::remove_dir_all on a removable tree
remove_dir_all(f, p) == [q \in {r \in DOMAIN f : ~IsPrefix(p, r)} |-> f[q]]

\* std::fs::create_dir_all: fails when a component exists and is a file
can_create_dir_all(f, p) ==
    \A k \in 1..Len(p) : ~is_file(f, SubSeq(p, 1, k))
create_dir_all(f, p) ==
    [q \in DOMAIN f \cup {SubSeq(p, 1, k) : k \in 1..Len(p)} |->
        IF q \in DOMAIN f THEN f[q] ELSE Dir]

\* std::fs::copy: contents and permission bits of src, written to dst, which
\* is opened for writing (created or truncated)
can_copy(f, src, dst) ==
    /\ is_file(f, src)
    /\ is_dir(f, parent(dst))
    /\ ~is_dir(f, dst)
    /\ ~(is_file(f, dst) /\ f[dst].readonly)
copy(f, src, dst) == [q \in DOMAIN f \cup {dst} |-> IF q = dst THEN f[src] ELSE f[q]]

\* the characters of a component name (&str as the code sees it)
Chars(name) ==
    CASE name = "r" -> <<"r">>
      [] name = "p1" -> <<"p", "1">>
      [] name = "p2" -> <<"p", "2">>
      [] name = "p3" -> <<"p", "3">>
      [] name = "p4" -> <<"p", "4">>
      [] name = "a" -> <<"a">>
      [] name = "n" -> <<"n">>
      [] name = "q" -> <<"q">>
      [] name = "p" -> <<"p">>
      [] name = "child" -> <<"c", "h", "i", "l", "d">>
      [] name = "tmp" -> <<"t", "m", "p">>
      [] name = "clean-dev-dirs-backup-pid" -> <<"c", "l", "e", "a", "n", "-", "d", "e", "v", "-", "d", "i", "r", "s", "-", "b", "a", "c", "k", "u", "p", "-", "p", "i", "d">>
      [] name = "Cargo.toml" -> <<"C", "a", "r", "g", "o", ".", "t", "o", "m", "l">>
      [] name = "target" -> <<"t", "a", "r", "g", "e", "t">>
      [] name = "debug" -> <<"d", "e", "b", "u", "g">>
      [] name = "release" -> <<"r", "e", "l", "e", "a", "s", "e">>
      [] name = "app" -> <<"a", "p", "p">>
      [] name = "libapp.rlib" -> <<"l", "i", "b", "a", "p", "p", ".", "r", "l", "i", "b">>
      [] name = "app.d" -> <<"a", "p", "p", ".", "d">>
      [] name = "package.json" -> <<"p", "a", "c", "k", "a", "g", "e", ".", "j", "s", "o", "n">>
      [] name = "node_modules" -> <<"n", "o", "d", "e", "_", "m", "o", "d", "u", "l", "e", "s">>
      [] name = "dep.js" -> <<"d", "e", "p", ".", "j", "s">>
      [] name = "requirements.txt" -> <<"r", "e", "q", "u", "i", "r", "e", "m", "e", "n", "t", "s", ".", "t", "x", "t">>
      [] name = "__pycache__" -> <<"_", "_", "p", "y", "c", "a", "c", "h", "e", "_", "_">>
      [] name = "m.pyc" -> <<"m", ".", "p", "y", "c">>
      [] name = "go.mod" -> <<"g", "o", ".", "m", "o", "d">>
      [] name = "vendor" -> <<"v", "e", "n", "d", "o", "r">>
      [] name = "bin" -> <<"b", "i", "n">>
      [] name = "tool" -> <<"t", "o", "o", "l">>
      [] name = "modules.txt" -> <<"m", "o", "d", "u", "l", "e", "s", ".", "t", "x", "t">>
      [] name = "venv" -> <<"v", "e", "n", "v">>
      [] name = "lib.py" -> <<"l", "i", "b", ".", "p", "y">>
      [] name = ".hidden" -> <<".", "h", "i", "d", "d", "e", "n">>
      [] name = ".cargo" -> <<".", "c", "a", "r", "g", "o">>
      [] name = "skip-me" -> <<"s", "k", "i", "p", "-", "m", "e">>
      [] name = "skip" -> <<"s", "k", "i", "p">>
      [] name = "f" -> <<"f">>
      [] name = "dist" -> <<"d", "i", "s", "t">>
      [] name = "build" -> <<"b", "u", "i", "l", "d">>
      [] name = "lib" -> <<"l", "i", "b">>
      [] name = "deps" -> <<"d", "e", "p", "s">>
      [] name = "pkg.whl" -> <<"p", "k", "g", ".", "w", "h", "l">>
      [] name = "notes.txt" -> <<"n", "o", "t", "e", "s", ".", "t", "x", "t">>
      [] name = "ext.so" -> <<"e", "x", "t", ".", "s", "o">>
      [] name = "mod.pyd" -> <<"m", "o", "d", ".", "p", "y", "d">>

\* str::starts_with(c)
starts_with(name, c) == Len(Chars(name)) >= 1 /\ Chars(name)[1] = c

\* a function from a set of <<path, node>> pairs
Tree(pairs) == [p \in {e[1] : e \in pairs} |-> (CHOOSE e \in pairs : e[1] = p)[2]]

\* a file that holds its own path as content
Own(p, sz, x) == <<p, File(sz, x, p)>>

(***************************************************************************)
(* cleaner.rs: sizes and the executable test                               *)
(***************************************************************************)
\* cleaner.rs calculate_directory_size: the file sizes below path, errors skipped
\* the regular files a walk from path yields: those below directories that
\* can all be listed (an unlistable directory yields an Err and no entries)
walked_files(f, path) ==
    {q \in WalkDir(f, path) :
        /\ f[q].type = "file"
        /\ \A n \in Len(path)..(Len(q) - 1) : ~f[SubSeq(q, 1, n)].unreadable}

calculate_directory_size(f, path) ==
    SumOver(walked_files(f, path), [q \in DOMAIN f |-> f[q].size])

\* cleaner.rs is_executable (unix): any execute bit of the mode
is_executable(f, path) == path \in DOMAIN f /\ f[path].exec

\* a set of paths as a sequence, in a fixed directory order
RECURSIVE SetToSeq(_)
SetToSeq(S) ==
    IF S = {} THEN <<>>
    ELSE LET x == CHOOSE y \in S : \A z \in S : Len(y) <= Len(z)
         IN <<x>> \o SetToSeq(S \ {x})

\* the executables one directory holds (the loop body of both clean_*_with_executables)
executables_in(f, dir) ==
    IF exists(f, dir)
    THEN SetToSeq({q \in read_dir(f, dir) : is_file(f, q) /\ is_executable(f, q)})
    ELSE <<>>

\* clean_rust_with_executables, lines 250-268: debug first, then release
rust_executables(f, target_dir) ==
    executables_in(f, join(target_dir, "debug")) \o
    executables_in(f, join(target_dir, "release"))

\* clean_go_with_executables, lines 323-337
go_executables(f, vendor_dir) == executables_in(f, join(vendor_dir, "bin"))

\* std::env::temp_dir().join(format!("clean-dev-dirs-backup-{}", std::process::id())):
\* one process, one id, so one directory for every worker
temp_dir == <<"tmp", "clean-dev-dirs-backup-pid">>

(***************************************************************************)
(* Projects on disk                                                        *)
(***************************************************************************)
ProjectTypes == {"Rust", "Node", "Python", "Go"}

\* project.rs Project::new (the name is display-only and left out)
Project(kind, root_path, build_path, size) ==
    [kind |-> kind, root_path |-> root_path,
     build_arts |-> [path |-> build_path, size |-> size]]

ProjNames == <<"p1", "p2", "p3", "p4">>
scan_root == <<"r">>
Root(i) == <<"r", ProjNames[i]>>

Templates == {"RustExe", "RustPlain", "Node", "Python", "GoExe", "Gone"}

\* what a project of each template has on disk below its root R
Layout(tpl, R) ==
    LET t == join(R, "target")
        n == join(R, "node_modules")
        c == join(R, "__pycache__")
        v == join(R, "vendor")
    IN  {<<R, Dir>>} \cup
        CASE tpl = "RustExe" ->
               {Own(join(R, "Cargo.toml"), 1, FALSE), <<t, Dir>>,
                <<join(t, "debug"), Dir>>, <<join(t, "release"), Dir>>,
                Own(t \o <<"debug", "app">>, 2, TRUE),
                Own(t \o <<"release", "app">>, 3, TRUE),
                Own(t \o <<"release", "libapp.rlib">>, 1, FALSE)}
          [] tpl = "RustPlain" ->
               {Own(join(R, "Cargo.toml"), 1, FALSE), <<t, Dir>>,
                <<join(t, "debug"), Dir>>,
                Own(t \o <<"debug", "app.d">>, 2, FALSE)}
          [] tpl = "Node" ->
               {Own(join(R, "package.json"), 1, FALSE), <<n, Dir>>,
                Own(join(n, "dep.js"), 4, FALSE)}
          [] tpl = "Python" ->
               {Own(join(R, "requirements.txt"), 1, FALSE), <<c, Dir>>,
                Own(join(c, "m.pyc"), 1, FALSE)}
          [] tpl = "GoExe" ->
               {Own(join(R, "go.mod"), 1, FALSE), <<v, Dir>>,
                <<join(v, "bin"), Dir>>,
                Own(v \o <<"bin", "tool">>, 2, TRUE),
                Own(join(v, "modules.txt"), 1, FALSE)}
          [] tpl = "Gone" ->
               {Own(join(R, "package.json"), 1, FALSE)}
          [] tpl = "RustEmpty" ->
               {Own(join(R, "Cargo.toml"), 1, FALSE), <<t, Dir>>}

KindOf(tpl) ==
    CASE tpl \in {"RustExe", "RustPlain"} -> "Rust"
      [] tpl \in {"Node", "Gone"} -> "Node"
      [] tpl = "Python" -> "Python"
      [] tpl = "GoExe" -> "Go"

BuildName(kind) ==
    CASE kind = "Rust" -> "target"
      [] kind = "Node" -> "node_modules"
      [] kind = "Python" -> "__pycache__"
      [] kind = "Go" -> "vendor"

\* the size the scan recorded; the build directory may have changed since
\* (RustPlain shrank by one byte, Gone was removed altogether)
Estimate(tpl) ==
    CASE tpl = "RustExe" -> 6
      [] tpl = "RustPlain" -> 3
      [] tpl = "Node" -> 4
      [] tpl = "Python" -> 1
      [] tpl = "GoExe" -> 3
      [] tpl = "Gone" -> 4

BaseDirs == {<<scan_root, Dir>>, <<<<"tmp">>, Dir>>}

Disk(tpl) == Tree(BaseDirs \cup UNION {Layout(tpl[i], Root(i)) : i \in DOMAIN tpl})

Submitted(tpl) ==
    [i \in DOMAIN tpl |->
        Project(KindOf(tpl[i]), Root(i), join(Root(i), BuildName(KindOf(tpl[i]))),
                Estimate(tpl[i]))]

(***************************************************************************)
(* scanner.rs: pruning                                                     *)
(***************************************************************************)
\* mutant: only the entry's own name is compared with the skip list
is_file_name_in_skip_list(skip, path) == file_name(path) \in skip

\* is_path_in_skip_list: some component of the path equals a skip entry
is_path_in_skip_list(skip, path) ==
    \E sk \in skip : \E c \in DOMAIN path : path[c] = sk

\* should_scan_entry 574-577: path.ancestors() is the path and each of its prefixes
inside_node_modules(path) ==
    \E k \in 1..Len(path) : file_name(SubSeq(path, 1, k)) = "node_modules"

\* is_hidden_directory_to_skip
is_hidden_directory_to_skip(path) ==
    starts_with(file_name(path), ".") /\ file_name(path) # ".cargo"

excluded_dirs ==
    {"target", "build", "dist", "out", ".git", ".svn", ".hg", "__pycache__",
     "venv", ".venv", "env", ".env", "temp", "tmp", "vendor", ".pytest_cache",
     ".tox", ".eggs", ".coverage", "node_modules"}

\* is_excluded_directory
is_excluded_directory(path) == file_name(path) \in excluded_dirs

\* should_scan_entry
should_scan_entry(skip, path) ==
    IF is_path_in_skip_list(skip, path) THEN FALSE
    ELSE IF inside_node_modules(path) THEN FALSE
    ELSE IF is_hidden_directory_to_skip(path) THEN FALSE
    ELSE ~is_excluded_directory(path)

(***************************************************************************)
(* scanner.rs: classification                                              *)
(***************************************************************************)
None == [tag |-> "none"]

\* detect_rust_project
detect_rust_project(f, path) ==
    IF exists(f, join(path, "Cargo.toml")) /\ exists(f, join(path, "target"))
    THEN Project("Rust", path, join(path, "target"), 0)
    ELSE None

\* detect_node_project
detect_node_project(f, path) ==
    IF exists(f, join(path, "package.json")) /\ exists(f, join(path, "node_modules"))
    THEN Project("Node", path, join(path, "node_modules"), 0)
    ELSE None

config_files ==
    <<"requirements.txt", "setup.py", "pyproject.toml", "setup.cfg", "Pipfile",
      "pipenv.lock", "poetry.lock">>

build_dirs ==
    <<"__pycache__", ".pytest_cache", "venv", ".venv", "build", "dist", ".eggs",
      ".tox", ".coverage">>

\* Scanner::calculate_directory_size (942-956): read_dir recursion over the files
\* (every entry that is not a directory is counted with entry.metadata().len())
scanner_directory_size(f, dir_path) ==
    SumOver({q \in WalkDir(f, dir_path) :
                /\ f[q].type # "dir"
                /\ \A n \in Len(dir_path)..(Len(q) - 1) : ~f[SubSeq(q, 1, n)].unreadable},
            [q \in DOMAIN f |-> f[q].size])

\* detect_python_project 694-708: the loop over build_dirs, from index k on,
\* carrying (largest_build_dir, largest_size)
RECURSIVE largest_build_dir(_, _, _, _, _)
largest_build_dir(f, path, k, best, largest_size) ==
    IF k > Len(build_dirs) THEN best
    ELSE LET dir_path == join(path, build_dirs[k])
             size == IF is_dir(f, dir_path) THEN scanner_directory_size(f, dir_path)
                     ELSE 0
         IN  IF is_dir(f, dir_path) /\ size > largest_size
             THEN largest_build_dir(f, path, k + 1, dir_path, size)
             ELSE largest_build_dir(f, path, k + 1, best, largest_size)

\* detect_python_project
detect_python_project(f, path) ==
    IF ~(\E c \in DOMAIN config_files : exists(f, join(path, config_files[c])))
    THEN None
    ELSE LET best == largest_build_dir(f, path, 1, <<>>, 0)
         IN  IF best # <<>> THEN Project("Python", path, best, 0) ELSE None

\* detect_go_project
detect_go_project(f, path) ==
    IF exists(f, join(path, "go.mod")) /\ exists(f, join(path, "vendor"))
    THEN Project("Go", path, join(path, "vendor"), 0)
    ELSE None

\* matches!(self.project_filter, ProjectFilter::All | ProjectFilter::<kind>)
filter_allows(filter, kind) == filter = "All" \/ filter = kind

\* mutant: the Node check moved ahead of the Rust check
detect_project_node_first(f, filter, path) ==
    IF ~is_dir(f, path) THEN None
    ELSE IF filter_allows(filter, "Node") /\ detect_node_project(f, path) # None
         THEN detect_node_project(f, path)
    ELSE IF filter_allows(filter, "Rust") /\ detect_rust_project(f, path) # None
         THEN detect_rust_project(f, path)
    ELSE IF filter_allows(filter, "Python") /\ detect_python_project(f, path) # None
         THEN detect_python_project(f, path)
    ELSE IF filter_allows(filter, "Go") /\ detect_go_project(f, path) # None
         THEN detect_go_project(f, path)
    ELSE None

\* detect_project
detect_project(f, filter, path) ==
    IF ~is_dir(f, path) THEN None
    ELSE IF filter_allows(filter, "Rust") /\ detect_rust_project(f, path) # None
         THEN detect_rust_project(f, path)
    ELSE IF filter_allows(filter, "Node") /\ detect_node_project(f, path) # None
         THEN detect_node_project(f, path)
    ELSE IF filter_allows(filter, "Python") /\ detect_python_project(f, path) # None
         THEN detect_python_project(f, path)
    ELSE IF filter_allows(filter, "Go") /\ detect_go_project(f, path) # None
         THEN detect_go_project(f, path)
    ELSE None

(***************************************************************************)
(* scanner.rs: Scanner::scan_directory                                     *)
(***************************************************************************)
\* calculate_build_dir_size
calculate_build_dir_size(f, path) ==
    IF ~exists(f, path) THEN 0
    ELSE SumOver(walked_files(f, path), [q \in DOMAIN f |-> f[q].size])

\* the elements of seq that satisfy Keep, in order (Iterator::filter)
RECURSIVE SelectSeqBy(_, _)
SelectSeqBy(seq, keep) ==
    IF seq = <<>> THEN <<>>
    ELSE IF Head(seq) \in keep THEN <<Head(seq)>> \o SelectSeqBy(Tail(seq), keep)
    ELSE SelectSeqBy(Tail(seq), keep)

\* mutant: the walk without its filter
walk_entries_unfiltered(f, root, skip) == SetToSeq(WalkDir(f, root))

\* a walk that does not descend below an entry it rejects
walk_entries_filter_entry(f, root, skip) ==
    SetToSeq({q \in WalkDir(f, root) :
                \A n \in Len(root)..Len(q) : should_scan_entry(skip, SubSeq(q, 1, n))})

\* lines 138-142: WalkDir::new(root) .. .filter(|entry| self.should_scan_entry(entry))
\* (every entry of the tree is visited; the filter drops entries, not subtrees;
\* for a root that cannot be read WalkDir yields one Err, which
\* filter_map(Result::ok) drops, so nothing is left)
walk_entries(f, root, skip) ==
    SetToSeq({q \in WalkDir(f, root) : should_scan_entry(skip, q)})

\* lines 143-145: .filter_map(|entry| self.detect_project(&entry, &errors)).collect()
detect_all(f, filter, entries) ==
    LET found == [k \in DOMAIN entries |-> detect_project(f, filter, entries[k])]
        hits == SelectSeqBy([k \in DOMAIN entries |-> k],
                            {k \in DOMAIN entries : found[k] # None})
    IN  [j \in DOMAIN hits |-> found[hits[j]]]

\* mutant: the sized project is kept whatever its size
keeps_sized_any(size) == size >= 0

\* line 156: if size > 0 { Some(project) } else { None }
keeps_sized(size) == size > 0

\* lines 150-158, after the join: the sized projects that are kept, in order
collect_sized(potential, sizes) ==
    LET hits == SelectSeqBy([k \in DOMAIN potential |-> k],
                            {k \in DOMAIN potential : keeps_sized(sizes[k])})
    IN  [j \in DOMAIN hits |->
            [potential[hits[j]] EXCEPT !.build_arts.size = sizes[hits[j]]]]

\* scan_directory, start to end
scan_directory(f, root, skip, filter) ==
    LET potential == detect_all(f, filter, walk_entries(f, root, skip))
    IN  collect_sized(potential,
                      [k \in DOMAIN potential |->
                          calculate_build_dir_size(f, potential[k].build_arts.path)])

Pending == -1

ScanIdle == [pc |-> "idle", entries |-> <<>>, potential_projects |-> <<>>,
             sizes |-> <<>>, projects_with_sizes |-> <<>>]

\* lines 138-142
ScanWalk ==
    /\ scan.pc = "idle"
    /\ scan' = [scan EXCEPT !.pc = "walking",
                            !.entries = walk_entries(fs, scan_root, scan_options.skip)]
    /\ UNCHANGED <<fs, fs0, trash, locked, execution_options, projects, worker,
                   cleaned_size, errors, summary, scan_options, project_filter,
                   mainVars>>

\* lines 143-147: the parallel classification and its collect
ScanDetect ==
    /\ scan.pc = "walking"
    /\ LET potential == detect_all(fs, project_filter, scan.entries)
       IN  scan' = [scan EXCEPT !.pc = "sizing",
                                !.potential_projects = potential,
                                !.sizes = [k \in DOMAIN potential |-> Pending]]
    /\ UNCHANGED <<fs, fs0, trash, locked, execution_options, projects, worker,
                   cleaned_size, errors, summary, scan_options, project_filter,
                   mainVars>>

\* lines 152-154: one project's size, computed by whichever worker takes it
ScanSize(k) ==
    /\ scan.pc = "sizing"
    /\ scan.sizes[k] = Pending
    /\ scan' = [scan EXCEPT !.sizes[k] =
                    calculate_build_dir_size(fs, scan.potential_projects[k].build_arts.path)]
    /\ UNCHANGED <<fs, fs0, trash, locked, execution_options, projects, worker,
                   cleaned_size, errors, summary, scan_options, project_filter,
                   mainVars>>

\* a collect that does not wait for the workers
sizing_joined_early(sizes) == TRUE

\* line 158: collect() returns when every closure of the parallel iterator has
sizing_joined(sizes) == \A k \in DOMAIN sizes : sizes[k] # Pending

\* lines 156-168: the collect after the sizing, and the return
ScanFinish ==
    /\ scan.pc = "sizing"
    /\ sizing_joined(scan.sizes)
    /\ scan' = [scan EXCEPT !.pc = "done",
                            !.projects_with_sizes =
                                collect_sized(scan.potential_projects, scan.sizes)]
    /\ UNCHANGED <<fs, fs0, trash, locked, execution_options, projects, worker,
                   cleaned_size, errors, summary, scan_options, project_filter,
                   mainVars>>

NextScan ==
    \/ ScanWalk
    \/ ScanDetect
    \/ \E k \in DOMAIN scan.sizes : ScanSize(k)
    \/ ScanFinish

(***************************************************************************)
(* cleaner.rs: Cleaner::clean_projects                                     *)
(***************************************************************************)
NoResult == [tag |-> "none"]
Ok(n) == [tag |-> "ok", freed |-> n]
Err(reason) == [tag |-> "err", reason |-> reason]

\* the closure's state before it runs
Fresh ==
    [pc |-> "start", actual_size |-> 0, executables |-> <<>>, backed_up |-> <<>>,
     k |-> 1, result |-> NoResult, guard |-> [value |-> 0, entries |-> <<>>]]

\* mutant: the freed size taken from the scan's cached estimate
measured_size_cached(f, project) == project.build_arts.size

\* clean_single_project, line 470: the size on disk right before the removal
measured_size(f, project) == calculate_directory_size(f, project.build_arts.path)

\* clean_single_project 473 and clean_with_executable_preservation 217-225:
\* the executables a clean with this policy sets aside
executables_to_keep(f, project, keep_executables) ==
    IF ~keep_executables THEN <<>>
    ELSE CASE project.kind = "Rust" -> rust_executables(f, project.build_arts.path)
           [] project.kind = "Go" -> go_executables(f, project.build_arts.path)
           [] OTHER -> <<>>

\* the removal every clean ends in: fs::remove_dir_all(build_dir), whatever
\* execution_options.use_trash says (clean_projects reads keep_executables only)
can_remove(f, lk, path) == \A q \in WalkDir(f, path) : q \notin lk
remove_build_dir(f, path, use_trash) == remove_dir_all(f, path)
trash_after_remove(f, tr, path, use_trash) == tr

\* clean_single_project 462-470, then the scan for executables (250-268, 323-337)
Begin(i) ==
    /\ worker[i].pc = "start"
    /\ LET project == projects[i]
           build_dir == project.build_arts.path
       IN  IF ~exists(fs, build_dir)
           THEN worker' = [worker EXCEPT ![i].pc = "report", ![i].result = Ok(0)]
           ELSE LET exes == executables_to_keep(fs, project,
                                                execution_options.keep_executables)
                IN  worker' = [worker EXCEPT
                        ![i].actual_size = measured_size(fs, project),
                        ![i].executables = exes,
                        ![i].pc = IF exes = <<>> THEN "remove" ELSE "mktemp"]
    /\ UNCHANGED <<fs, fs0, trash, locked, execution_options, projects,
                   cleaned_size, errors, summary, scanVars, mainVars>>

\* lines 277-279 and 346-348: fs::create_dir_all(&temp_dir)?
MkTemp(i) ==
    /\ worker[i].pc = "mktemp"
    /\ IF can_create_dir_all(fs, temp_dir)
       THEN /\ fs' = create_dir_all(fs, temp_dir)
            /\ worker' = [worker EXCEPT ![i].pc = "backup", ![i].k = 1]
       ELSE /\ fs' = fs
            /\ worker' = [worker EXCEPT ![i].pc = "report",
                                        ![i].result = Err("create_dir_all")]
    /\ UNCHANGED <<fs0, trash, locked, execution_options, projects,
                   cleaned_size, errors, summary, scanVars, mainVars>>

\* mutant: the backup loop left after its first executable
backup_done_early(w) == TRUE

\* lines 283 and 352: `for exe in &executables` has reached its last executable
backup_done(w) == w.k = Len(w.executables)

\* lines 283-290 and 352-359, one executable per step:
\* backup_path = temp_dir.join(file_name); kept in backed_up only if the copy is ok
Backup(i) ==
    /\ worker[i].pc = "backup"
    /\ LET w == worker[i]
           exe == w.executables[w.k]
           backup_path == join(temp_dir, file_name(exe))
           ok == can_copy(fs, exe, backup_path)
       IN  /\ fs' = IF ok THEN copy(fs, exe, backup_path) ELSE fs
           /\ worker' = [worker EXCEPT
                   ![i].backed_up = IF ok THEN Append(w.backed_up, <<backup_path, exe>>)
                                    ELSE w.backed_up,
                   ![i].k = w.k + 1,
                   ![i].pc = IF backup_done(w) THEN "remove" ELSE "backup"]
    /\ UNCHANGED <<fs0, trash, locked, execution_options, projects,
                   cleaned_size, errors, summary, scanVars, mainVars>>

\* where the closure goes after a removal that worked
after_remove(w) ==
    IF w.executables = <<>> THEN "report"
    ELSE IF w.backed_up = <<>> THEN "rmtemp" ELSE "restore"

\* lines 222, 272, 293, 341, 362, 476: fs::remove_dir_all(build_dir)?
Remove(i) ==
    /\ worker[i].pc = "remove"
    /\ LET w == worker[i]
           build_dir == projects[i].build_arts.path
       IN  IF can_remove(fs, locked, build_dir)
           THEN /\ fs' = remove_build_dir(fs, build_dir, execution_options.use_trash)
                /\ trash' = trash_after_remove(fs, trash, build_dir,
                                               execution_options.use_trash)
                /\ worker' = [worker EXCEPT
                        ![i].pc = after_remove(w), ![i].k = 1,
                        ![i].result = IF w.executables = <<>> THEN Ok(w.actual_size)
                                      ELSE NoResult]
           ELSE /\ fs' = fs
                /\ trash' = trash
                /\ worker' = [worker EXCEPT ![i].pc = "report",
                                            ![i].result = Err("remove_dir_all")]
    /\ UNCHANGED <<fs0, locked, execution_options, projects,
                   cleaned_size, errors, summary, scanVars, mainVars>>

\* lines 296-301 (Rust) and 365-370 (Go), one backed-up executable per step:
\* fs::create_dir_all(parent)?; let _ = fs::copy(&backup_path, &original_path)
Restore(i) ==
    /\ worker[i].pc = "restore"
    /\ LET w == worker[i]
           backup_path == w.backed_up[w.k][1]
           original_path == w.backed_up[w.k][2]
       IN  IF can_create_dir_all(fs, parent(original_path))
           THEN LET made == create_dir_all(fs, parent(original_path))
                IN  /\ fs' = IF can_copy(made, backup_path, original_path)
                             THEN copy(made, backup_path, original_path)
                             ELSE made
                    /\ worker' = [worker EXCEPT
                            ![i].k = w.k + 1,
                            ![i].pc = IF w.k = Len(w.backed_up) THEN "rmtemp"
                                      ELSE "restore"]
           ELSE /\ fs' = fs
                /\ worker' = [worker EXCEPT ![i].pc = "report",
                                            ![i].result = Err("create_dir_all")]
    /\ UNCHANGED <<fs0, trash, locked, execution_options, projects,
                   cleaned_size, errors, summary, scanVars, mainVars>>

\* lines 304-306 and 373-375: let _ = fs::remove_dir_all(&temp_dir); Ok(())
\* and clean_single_project 479: Ok(actual_size)
RmTemp(i) ==
    /\ worker[i].pc = "rmtemp"
    /\ fs' = remove_dir_all(fs, temp_dir)
    /\ worker' = [worker EXCEPT ![i].pc = "report",
                                ![i].result = Ok(worker[i].actual_size)]
    /\ UNCHANGED <<fs0, trash, locked, execution_options, projects,
                   cleaned_size, errors, summary, scanVars, mainVars>>

\* a lock that is never granted
mutex_never_free(w, i) == FALSE

\* a lock that is granted whoever holds the mutex
mutex_free_always(w, i) == TRUE

\* Mutex::lock blocks while another worker holds the guard of the same mutex:
\* cleaned_size in the Ok arm, errors in the Err arm
mutex_free(w, i) ==
    \A j \in DOMAIN w \ {i} :
        ~(w[j].pc = "holding" /\ w[j].result.tag = w[i].result.tag)

\* lines 121 and 134: the guard of the worker's arm is taken and gives access
\* to the value behind the mutex
Lock(i) ==
    /\ worker[i].pc = "report"
    /\ mutex_free(worker, i)
    /\ worker' = [worker EXCEPT ![i].pc = "holding",
                      ![i].guard = IF worker[i].result.tag = "ok"
                                   THEN [@ EXCEPT !.value = cleaned_size]
                                   ELSE [@ EXCEPT !.entries = errors]]
    /\ UNCHANGED <<fs, fs0, trash, locked, execution_options, projects, cleaned_size,
                   errors, summary, scanVars, mainVars>>

\* lines 122 and 135-138: the update through the guard, which is then dropped
Report(i) ==
    /\ worker[i].pc = "holding"
    /\ LET r == worker[i].result
       IN  IF r.tag = "ok"
           THEN /\ cleaned_size' = worker[i].guard.value + r.freed
                /\ errors' = errors
           ELSE /\ errors' = Append(worker[i].guard.entries,
                                    [path |-> projects[i].build_arts.path,
                                     reason |-> r.reason])
                /\ cleaned_size' = cleaned_size
    /\ worker' = [worker EXCEPT ![i].pc = "done"]
    /\ UNCHANGED <<fs, fs0, trash, locked, execution_options, projects, summary, scanVars, mainVars>>

\* mutant: the failures are not taken off the total
success_count_all(total_projects, errs) == total_projects

\* line 159: let success_count = total_projects - errors.len()
success_count(total_projects, errs) == total_projects - Len(errs)

\* lines 146-187: after the join, the figures the summary prints
Summarize ==
    /\ summary = NoResult
    /\ \A i \in DOMAIN worker : worker[i].pc = "done"
    /\ worker # <<>>
    /\ summary' = [tag |-> "summary",
                   success_count |-> success_count(Len(projects), errors),
                   failed |-> errors,
                   total_freed |-> cleaned_size,
                   estimate |-> SeqSum([i \in DOMAIN projects |->
                                           projects[i].build_arts.size])]
    /\ UNCHANGED <<fs, fs0, trash, locked, execution_options, projects, worker,
                   cleaned_size, errors, scanVars, mainVars>>

NextClean ==
    \/ \E i \in DOMAIN worker :
          \/ Begin(i)
          \/ MkTemp(i)
          \/ Backup(i)
          \/ Remove(i)
          \/ Restore(i)
          \/ RmTemp(i)
          \/ Lock(i)
          \/ Report(i)
    \/ Summarize

(***************************************************************************)
(* main.rs: parse_size.  A string is a sequence of one-character strings.  *)
(***************************************************************************)
Value(n) == [tag |-> "ok", value |-> n]

\* str::to_uppercase, on the letters the size strings use
to_uppercase(str) ==
    [k \in DOMAIN str |->
        CASE str[k] = "k" -> "K" [] str[k] = "m" -> "M" [] str[k] = "g" -> "G"
          [] str[k] = "i" -> "I" [] str[k] = "b" -> "B" [] str[k] = "x" -> "X"
          [] OTHER -> str[k]]

ends_with(str, suffix) ==
    Len(str) >= Len(suffix)
    /\ SubSeq(str, Len(str) - Len(suffix) + 1, Len(str)) = suffix

\* str::trim_end_matches: the suffix is removed as often as it occurs
RECURSIVE trim_end_matches(_, _)
trim_end_matches(str, suffix) ==
    IF ends_with(str, suffix)
    THEN trim_end_matches(SubSeq(str, 1, Len(str) - Len(suffix)), suffix)
    ELSE str

contains(str, c) == \E k \in DOMAIN str : str[k] = c

\* str::split(c): the pieces between the occurrences of c
RECURSIVE split(_, _)
split(str, c) ==
    IF ~contains(str, c) THEN <<str>>
    ELSE LET k == CHOOSE j \in DOMAIN str :
                      str[j] = c /\ \A h \in 1..(j - 1) : str[h] # c
         IN  <<SubSeq(str, 1, k - 1)>> \o split(SubSeq(str, k + 1, Len(str)), c)

Digits == <<"0", "1", "2", "3", "4", "5", "6", "7", "8", "9">>

digit_value(c) == (CHOOSE k \in DOMAIN Digits : Digits[k] = c) - 1

RECURSIVE decimal_value(_)
decimal_value(str) ==
    IF str = <<>> THEN 0
    ELSE 10 * decimal_value(SubSeq(str, 1, Len(str) - 1)) + digit_value(str[Len(str)])

\* str::parse::<u64>: an optional '+', then one digit or more (at the string
\* lengths modelled the value always fits 64 bits)
parse_u64(str) ==
    LET body == IF str # <<>> /\ str[1] = "+" THEN Tail(str) ELSE str
    IN  IF body = <<>> \/ \E k \in DOMAIN body : body[k] \notin Range(Digits)
        THEN Err("invalid digit")
        ELSE Value(decimal_value(body))

UNITS ==
    << <<(<<"G", "I", "B">>), 1073741824>>, <<(<<"M", "I", "B">>), 1048576>>,
       <<(<<"K", "I", "B">>), 1024>>, <<(<<"G", "B">>), 1000000000>>,
       <<(<<"M", "B">>), 1000000>>, <<(<<"K", "B">>), 1000>> >>

\* parse_size_unit: the first unit, in the order of UNITS, the string ends with
parse_size_unit(size_str) ==
    LET hits == {k \in DOMAIN UNITS : ends_with(size_str, UNITS[k][1])}
    IN  IF hits = {} THEN <<size_str, 1>>
        ELSE LET k == CHOOSE h \in hits : \A j \in hits : h <= j
             IN  <<trim_end_matches(size_str, UNITS[k][1]), UNITS[k][2]>>

RECURSIVE pow10(_)
pow10(n) == IF n = 0 THEN 1 ELSE 10 * pow10(n - 1)

\* parse_integer_size (checked_mul cannot fail at the lengths modelled)
parse_integer_size(number_str, multiplier) ==
    LET number == parse_u64(number_str)
    IN  IF number.tag = "err" THEN number ELSE Value(number.value * multiplier)

\* parse_decimal_size with parse_fractional_part.  The code computes
\* (fractional_part * 10^(9 - digits) * multiplier) / 10^9, which is
\* (fractional_part * multiplier) / 10^digits, the form evaluated here.
parse_decimal_size(number_str, multiplier) ==
    LET parts == split(number_str, ".")
    IN  IF Len(parts) # 2 THEN Err("Invalid decimal format")
        ELSE LET int == parse_u64(parts[1])
                 integer_part == IF int.tag = "err" THEN 0 ELSE int.value
                 fractional_digits == Len(parts[2])
                 fractional_part == parse_u64(parts[2])
             IN  IF fractional_digits > 9 THEN Err("Too many decimal places")
                 ELSE IF fractional_part.tag = "err" THEN fractional_part
                 ELSE Value(integer_part * multiplier
                            + (fractional_part.value * multiplier)
                                  \div pow10(fractional_digits))

\* parse_size
parse_size(size_str) ==
    IF size_str = <<"0">> THEN Value(0)
    ELSE LET unit == parse_size_unit(to_uppercase(size_str))
         IN  IF contains(unit[1], ".")
             THEN parse_decimal_size(unit[1], unit[2])
             ELSE parse_integer_size(unit[1], unit[2])

(***************************************************************************)
(* main.rs: filter_projects                                                *)
(***************************************************************************)
\* mutant: a project exactly at the threshold is dropped
meets_size_criteria_strict(project, min_size) == project.build_arts.size > min_size

meets_size_criteria(project, min_size) == project.build_arts.size >= min_size

\* mutant: a project whose metadata cannot be read is filtered out
is_project_old_enough_fail_closed(f, project, keep_days) ==
    exists(f, project.build_arts.path)
    /\ f[project.build_arts.path].age >= keep_days

\* is_project_old_enough: unreadable metadata does not filter the project out
is_project_old_enough(f, project, keep_days) ==
    IF ~exists(f, project.build_arts.path) THEN TRUE
    ELSE f[project.build_arts.path].age >= keep_days

meets_time_criteria(f, project, keep_days) ==
    IF keep_days = 0 THEN TRUE ELSE is_project_old_enough(f, project, keep_days)

\* mutant: a size string that does not parse counts as no threshold
filter_projects_lenient(f, found, filter_opts) ==
    LET hits == SelectSeqBy([k \in DOMAIN found |-> k],
                    {k \in DOMAIN found :
                        meets_time_criteria(f, found[k], filter_opts.keep_days)})
    IN  Value([j \in DOMAIN hits |-> found[hits[j]]])

filter_projects(f, found, filter_opts) ==
    LET keep_size_bytes == parse_size(filter_opts.keep_size)
    IN  IF keep_size_bytes.tag = "err" THEN keep_size_bytes
        ELSE LET hits == SelectSeqBy([k \in DOMAIN found |-> k],
                            {k \in DOMAIN found :
                                /\ meets_size_criteria(found[k], keep_size_bytes.value)
                                /\ meets_time_criteria(f, found[k],
                                                       filter_opts.keep_days)})
             IN  Value([j \in DOMAIN hits |-> found[hits[j]]])

NoFilter == [keep_size |-> <<"0">>, keep_days |-> 0]

(***************************************************************************)
(* main.rs: inner_main                                                     *)
(***************************************************************************)
NoSelection == [tag |-> "none"]

MainIdle == [pc |-> "idle", filtered_projects |-> <<>>, selection |-> NoSelection,
             result |-> NoResult]

\* lines 101-124: the scan has returned; the empty checks around filter_projects
MainFilter ==
    /\ main.pc = "scan"
    /\ scan.pc = "done"
    /\ LET found == scan.projects_with_sizes
           filtered == filter_projects(fs, found, filter_options)
       IN  IF found = <<>>
           THEN main' = [main EXCEPT !.pc = "returned", !.result = Ok(0)]
           ELSE IF filtered.tag = "err"
           THEN main' = [main EXCEPT !.pc = "returned", !.result = filtered]
           ELSE IF filtered.value = <<>>
           THEN main' = [main EXCEPT !.pc = "returned", !.result = Ok(0)]
           ELSE main' = [main EXCEPT
                    !.filtered_projects = filtered.value,
                    !.pc = IF execution_options.interactive THEN "select" ELSE "run"]
    /\ UNCHANGED <<fs, fs0, trash, locked, execution_options, projects, worker,
                   cleaned_size, errors, summary, scanVars, filter_options, preserver, sizer>>

\* lines 126-135: the user ticks some of the listed projects, or cancels
MainSelect ==
    /\ main.pc = "select"
    /\ \/ \E chosen \in SUBSET DOMAIN main.filtered_projects :
             LET hits == SelectSeqBy([k \in DOMAIN main.filtered_projects |-> k], chosen)
                 selected == [j \in DOMAIN hits |-> main.filtered_projects[hits[j]]]
             IN  main' = [main EXCEPT
                     !.selection = Value(selected),
                     !.pc = IF selected = <<>> THEN "returned" ELSE "run",
                     !.result = IF selected = <<>> THEN Ok(0) ELSE NoResult]
       \/ main' = [main EXCEPT !.pc = "returned", !.result = Err("cancelled")]
    /\ UNCHANGED <<fs, fs0, trash, locked, execution_options, projects, worker,
                   cleaned_size, errors, summary, scanVars, filter_options, preserver, sizer>>

\* mutant: the dry-run test asked of interactive runs only
returns_on_dry_run_if_interactive(options) == options.dry_run /\ options.interactive

\* line 139: if execution_options.dry_run { .. return Ok(()) }
returns_on_dry_run(options) == options.dry_run

\* lines 137-148: the dry-run return, or the call of Cleaner::clean_projects(projects)
MainRun ==
    /\ main.pc = "run"
    /\ IF returns_on_dry_run(execution_options)
       THEN /\ main' = [main EXCEPT !.pc = "returned", !.result = Ok(0)]
            /\ UNCHANGED <<projects, worker>>
       ELSE /\ main' = [main EXCEPT !.pc = "clean"]
            /\ projects' = main.filtered_projects
            /\ worker' = [i \in DOMAIN main.filtered_projects |-> Fresh]
    /\ UNCHANGED <<fs, fs0, trash, locked, execution_options,
                   cleaned_size, errors, summary, scanVars, filter_options, preserver, sizer>>

NextMain ==
    \/ NextScan
    \/ MainFilter
    \/ MainSelect
    \/ MainRun
    \/ NextClean

(***************************************************************************)
(* executables.rs: preserve_executables                                    *)
(***************************************************************************)
\* Path::extension as an Option, here a set of at most one string: what
\* follows the last dot of the file name, unless the only dot leads the name
extension(path) ==
    LET c == Chars(file_name(path))
        dots == {i \in 2..Len(c) : c[i] = "."}
    IN  IF dots = {} THEN {}
        ELSE LET last == CHOOSE i \in dots : \A j \in dots : j <= i
             IN  {SubSeq(c, last + 1, Len(c))}

RUST_EXCLUDED_EXTENSIONS ==
    {<<"d">>, <<"r", "m", "e", "t", "a">>, <<"r", "l", "i", "b">>, <<"a">>,
     <<"s", "o">>, <<"d", "y", "l", "i", "b">>, <<"d", "l", "l">>, <<"p", "d", "b">>}

\* find_rust_executables: the regular files directly in dir that carry an
\* executable bit and no excluded extension
find_rust_executables(f, dir) ==
    SetToSeq({q \in read_dir(f, dir) :
                /\ is_file(f, q)
                /\ extension(q) \cap RUST_EXCLUDED_EXTENSIONS = {}
                /\ is_executable(f, q)})

PreservedExecutable(source, destination) ==
    [source |-> source, destination |-> destination]

\* the .whl entries of dist/ (files or not: the loop tests the extension only)
python_wheels(f, dist_dir) ==
    IF is_dir(f, dist_dir)
    THEN SetToSeq({q \in read_dir(f, dist_dir) : extension(q) = {<<"w", "h", "l">>}})
    ELSE <<>>

\* the .so / .pyd files anywhere below build/
python_extensions(f, build_dir) ==
    IF is_dir(f, build_dir)
    THEN SetToSeq({q \in WalkDir(f, build_dir) :
                     /\ is_file(f, q)
                     /\ extension(q) \cap {<<"s", "o">>, <<"p", "y", "d">>} # {}})
    ELSE <<>>

PreserveIdle ==
    [pc |-> "idle", run |-> 1, profiles |-> <<>>, todo |-> <<>>, dest_dir |-> <<>>,
     preserved |-> <<>>, result |-> NoResult, first |-> NoResult]

\* the one project preservation is called for
preserve_project == projects[1]
bin_dir == join(preserve_project.root_path, "bin")

PreserveFrame ==
    UNCHANGED <<fs0, trash, locked, execution_options, projects, worker,
                cleaned_size, errors, summary, scanVars, filter_options, main, sizer>>

\* preserve_executables: the match on project.kind
PreserveStart ==
    /\ preserver.pc = "idle"
    /\ preserver' =
         CASE preserve_project.kind = "Rust" ->
                [preserver EXCEPT !.pc = "profile", !.profiles = <<"release", "debug">>]
           [] preserve_project.kind = "Python" ->
                [preserver EXCEPT !.pc = "dist"]
           [] OTHER ->
                [preserver EXCEPT !.pc = "returned", !.result = Value(<<>>)]
    /\ UNCHANGED fs
    /\ PreserveFrame

\* preserve_rust_executables: one turn of the loop over the profiles, up to
\* the creation of dest_dir
RustProfile ==
    /\ preserver.pc = "profile"
    /\ IF preserver.profiles = <<>>
       THEN /\ preserver' = [preserver EXCEPT !.pc = "returned",
                                              !.result = Value(preserver.preserved)]
            /\ UNCHANGED fs
       ELSE LET profile == Head(preserver.profiles)
                profile_dir == join(preserve_project.build_arts.path, profile)
                dest_dir == join(bin_dir, profile)
                executables == find_rust_executables(fs, profile_dir)
            IN  IF ~is_dir(fs, profile_dir) \/ executables = <<>>
                THEN /\ preserver' = [preserver EXCEPT !.profiles = Tail(@)]
                     /\ UNCHANGED fs
                ELSE IF ~can_create_dir_all(fs, dest_dir)
                THEN /\ preserver' = [preserver EXCEPT !.pc = "returned",
                                          !.result = Err("Failed to create")]
                     /\ UNCHANGED fs
                ELSE /\ fs' = create_dir_all(fs, dest_dir)
                     /\ preserver' = [preserver EXCEPT !.pc = "copy",
                                          !.todo = executables, !.dest_dir = dest_dir]
    /\ PreserveFrame

\* one fs::copy whose failure is passed over
copy_or_continue(p, f, src, dst) ==
    IF can_copy(f, src, dst)
    THEN [fs |-> copy(f, src, dst),
          preserver |-> [p EXCEPT !.todo = Tail(@),
                             !.preserved = Append(@, PreservedExecutable(src, dst))]]
    ELSE [fs |-> f, preserver |-> [p EXCEPT !.todo = Tail(@)]]

\* one fs::copy that returns at once on failure
copy_or_return(p, f, src, dst) ==
    IF can_copy(f, src, dst)
    THEN [fs |-> copy(f, src, dst),
          preserver |-> [p EXCEPT !.todo = Tail(@),
                             !.preserved = Append(@, PreservedExecutable(src, dst))]]
    ELSE [fs |-> f,
          preserver |-> [p EXCEPT !.pc = "returned", !.result = Err("Failed to copy")]]

\* preserve_rust_executables: one turn of the loop over the executables
RustCopy ==
    /\ preserver.pc = "copy"
    /\ IF preserver.todo = <<>>
       THEN /\ preserver' = [preserver EXCEPT !.pc = "profile", !.profiles = Tail(@)]
            /\ UNCHANGED fs
       ELSE LET exe_path == Head(preserver.todo)
                dest_path == join(preserver.dest_dir, file_name(exe_path))
                after == copy_or_return(preserver, fs, exe_path, dest_path)
            IN  /\ fs' = after.fs
                /\ preserver' = after.preserver
    /\ PreserveFrame

\* preserve_python_executables: the entries of dist/ are listed
PythonDist ==
    /\ preserver.pc = "dist"
    /\ preserver' = [preserver EXCEPT !.pc = "wheels",
           !.todo = python_wheels(fs, join(preserve_project.root_path, "dist"))]
    /\ UNCHANGED fs
    /\ PreserveFrame

\* preserve_python_executables: the walk of build/ begins
PythonBuild ==
    /\ preserver.pc = "wheels"
    /\ preserver.todo = <<>>
    /\ preserver' = [preserver EXCEPT !.pc = "extensions",
           !.todo = python_extensions(fs, join(preserve_project.root_path, "build"))]
    /\ UNCHANGED fs
    /\ PreserveFrame

\* preserve_python_executables: bin/ is created and one candidate copied
PythonCopy ==
    /\ preserver.pc \in {"wheels", "extensions"}
    /\ preserver.todo # <<>>
    /\ IF ~can_create_dir_all(fs, bin_dir)
       THEN /\ preserver' = [preserver EXCEPT !.pc = "returned",
                                 !.result = Err("Failed to create")]
            /\ UNCHANGED fs
       ELSE LET path == Head(preserver.todo)
                dest_path == join(bin_dir, file_name(path))
                after == copy_or_return(preserver, create_dir_all(fs, bin_dir),
                                        path, dest_path)
            IN  /\ fs' = after.fs
                /\ preserver' = after.preserver
    /\ PreserveFrame

\* preserve_python_executables: Ok(preserved)
PythonReturn ==
    /\ preserver.pc = "extensions"
    /\ preserver.todo = <<>>
    /\ preserver' = [preserver EXCEPT !.pc = "returned",
                                      !.result = Value(preserver.preserved)]
    /\ UNCHANGED fs
    /\ PreserveFrame

\* the caller calls preserve_executables for the same project once more
PreserveAgain ==
    /\ preserver.pc = "returned"
    /\ preserver.run < MaxRuns
    /\ preserver' = [PreserveIdle EXCEPT !.run = preserver.run + 1,
           !.first = IF preserver.run = 1
                     THEN [result |-> preserver.result, fs |-> fs]
                     ELSE preserver.first]
    /\ UNCHANGED fs
    /\ PreserveFrame

NextPreserve ==
    \/ PreserveStart
    \/ RustProfile
    \/ RustCopy
    \/ PythonDist
    \/ PythonBuild
    \/ PythonCopy
    \/ PythonReturn
    \/ PreserveAgain

(***************************************************************************)
(* calculate_build_dir_size and calculate_directory_size, entry by entry,  *)
(* while other processes may delete what is being walked                   *)
(***************************************************************************)
SizeIdle ==
    [pc |-> "idle", which |-> "scanner", path |-> <<>>, stack |-> <<>>,
     total_size |-> 0, counted |-> {}]

SizeFrame ==
    UNCHANGED <<fs0, trash, locked, execution_options, projects, worker, cleaned_size,
                errors, summary, scanVars, filter_options, main, preserver>>

\* what WalkDir yields for the children of dir: each path with the file type
\* its directory entry carries; nothing when the listing fails
listed(f, dir) ==
    IF is_dir(f, dir) /\ ~f[dir].unreadable
    THEN SetToSeq({<<q, f[q].type>> : q \in read_dir(f, dir)})
    ELSE <<>>

\* scanner.rs 192-194: `if !path.exists() { return 0; }`, then WalkDir::new(path);
\* cleaner.rs 521: WalkDir::new(path), which yields one Err for a missing path
SizeStart ==
    /\ sizer.pc = "idle"
    /\ sizer' =
         IF ~exists(fs, sizer.path)
         THEN [sizer EXCEPT !.pc = IF sizer.which = "scanner" THEN "done" ELSE "walking"]
         ELSE [sizer EXCEPT !.pc = "walking",
                            !.stack = <<<<sizer.path, fs[sizer.path].type>>>>]
    /\ UNCHANGED fs
    /\ SizeFrame

\* an entry that is counted whatever its file type
counts_any_type(file_type) == file_type # "dir"

\* entry.file_type().is_file()
counts(file_type) == file_type = "file"

\* one turn of `for entry in WalkDir::new(path)`: a directory is listed, a
\* regular file adds its length when its metadata can still be read
SizeVisit ==
    /\ sizer.pc = "walking"
    /\ sizer.stack # <<>>
    /\ LET entry == Head(sizer.stack)
           q == entry[1]
       IN  sizer' =
             IF entry[2] = "dir"
             THEN [sizer EXCEPT !.stack = listed(fs, q) \o Tail(@)]
             ELSE IF counts(entry[2]) /\ exists(fs, q)
             THEN [sizer EXCEPT !.stack = Tail(@),
                                !.total_size = @ + fs[q].size,
                                !.counted = @ \cup {q}]
             ELSE [sizer EXCEPT !.stack = Tail(@)]
    /\ UNCHANGED fs
    /\ SizeFrame

\* the walk is over: total_size is returned
SizeFinish ==
    /\ sizer.pc = "walking"
    /\ sizer.stack = <<>>
    /\ sizer' = [sizer EXCEPT !.pc = "done"]
    /\ UNCHANGED fs
    /\ SizeFrame

\* another process deletes an entry of the tree during the walk
Vanish(q) ==
    /\ sizer.pc = "walking"
    /\ IsPrefix(sizer.path, q)
    /\ fs' = remove_dir_all(fs, q)
    /\ UNCHANGED sizer
    /\ SizeFrame

NextSize ==
    \/ SizeStart
    \/ SizeVisit
    \/ SizeFinish
    \/ \E q \in DOMAIN fs : Vanish(q)

(***************************************************************************)
(* Spec: a batch of NProj projects handed to Cleaner::clean_projects       *)
(***************************************************************************)
Init ==
    \E tpl \in [1..NProj -> Templates], lk \in SUBSET (1..NProj),
       keep \in BOOLEAN, tr \in BOOLEAN :
        \* only a build directory that exists can be unremovable
        /\ \A i \in lk : tpl[i] # "Gone"
        /\ fs = Disk(tpl)
        /\ fs0 = fs
        /\ trash = {}
        /\ projects = Submitted(tpl)
        /\ locked = {projects[i].build_arts.path : i \in lk}
        /\ execution_options = [dry_run |-> FALSE, interactive |-> FALSE,
                                keep_executables |-> keep, use_trash |-> tr]
        /\ worker = [i \in 1..NProj |-> Fresh]
        /\ cleaned_size = 0
        /\ errors = <<>>
        /\ summary = NoResult
        /\ scan_options = [skip |-> {}]
        /\ project_filter = "All"
        /\ scan = ScanIdle
        /\ filter_options = NoFilter
        /\ main = MainIdle
        /\ preserver = PreserveIdle
        /\ sizer = SizeIdle

Next == NextClean

Spec == Init /\ [][Next]_vars

\* the threads of the pool and the thread that called clean_projects are
\* scheduled: while some step of the batch can be taken, one is taken
FairTemplates == {"RustExe", "Node"}

\* a batch of projects with and without executables, any of them unremovable
InitFair ==
    \E tpl \in [1..NProj -> FairTemplates], lk \in SUBSET (1..NProj), keep \in BOOLEAN :
        \* at most two of the projects stage executables in the temporary directory
        /\ Cardinality({i \in DOMAIN tpl : tpl[i] = "RustExe"}) <= 2
        /\ fs = Disk(tpl)
        /\ fs0 = fs
        /\ trash = {}
        /\ projects = Submitted(tpl)
        /\ locked = {projects[i].build_arts.path : i \in lk}
        /\ execution_options = [dry_run |-> FALSE, interactive |-> FALSE,
                                keep_executables |-> keep, use_trash |-> FALSE]
        /\ worker = [i \in 1..NProj |-> Fresh]
        /\ cleaned_size = 0
        /\ errors = <<>>
        /\ summary = NoResult
        /\ scan_options = [skip |-> {}]
        /\ project_filter = "All"
        /\ scan = ScanIdle
        /\ filter_options = NoFilter
        /\ main = MainIdle
        /\ preserver = PreserveIdle
        /\ sizer = SizeIdle

SpecFair == InitFair /\ [][Next]_vars /\ WF_vars(Next)

(***************************************************************************)
(* SpecScan: Scanner::scan_directory over trees under scan_root            *)
(***************************************************************************)
MaxSites == 2

ProjectFilters == {"All", "Rust", "Node", "Python", "Go"}

\* places a project may sit: plain, hidden, below hidden, .cargo, below a
\* build directory, skipped by name, below a skipped name, below node_modules,
\* and a directory with an excluded name
Sites ==
    {<<"r", "a">>, <<"r", ".hidden">>, <<"r", ".hidden", "child">>,
     <<"r", ".cargo">>, <<"r", "a", "target", "n">>, <<"r", "skip-me">>,
     <<"r", "skip-me", "p">>, <<"r", "a", "node_modules", "q">>,
     <<"r", "vendor">>}

SiteProfiles == {"RustPlain", "Node", "RustEmpty"}

SkipLists == {{}, {"skip"}, {"skip-me"}, {"a"}}

Ancestors(p) == {<<SubSeq(p, 1, k), Dir>> : k \in 1..(Len(p) - 1)}

SiteDisk(occ) ==
    Tree(BaseDirs \cup UNION {Ancestors(site) \cup Layout(occ[site], site) :
                                site \in DOMAIN occ})

Features ==
    [cargo : BOOLEAN, target : {"none", "empty", "full"},
     package : BOOLEAN, node_modules : {"none", "full"},
     requirements : BOOLEAN, pycache : {"none", "empty", "full"}, venv : BOOLEAN,
     gomod : BOOLEAN, vendor : BOOLEAN]

\* one directory R holding any mix of the four ecosystems' markers
Mixed(feat, R) ==
    LET t == join(R, "target")
        n == join(R, "node_modules")
        c == join(R, "__pycache__")
        e == join(R, "venv")
        v == join(R, "vendor")
    IN  {<<R, Dir>>}
        \cup (IF feat.cargo THEN {Own(join(R, "Cargo.toml"), 1, FALSE)} ELSE {})
        \cup (IF feat.target # "none" THEN {<<t, Dir>>} ELSE {})
        \cup (IF feat.target = "full" THEN {Own(join(t, "app.d"), 2, FALSE)} ELSE {})
        \cup (IF feat.package THEN {Own(join(R, "package.json"), 1, FALSE)} ELSE {})
        \cup (IF feat.node_modules = "full"
              THEN {<<n, Dir>>, Own(join(n, "dep.js"), 4, FALSE)} ELSE {})
        \cup (IF feat.requirements
              THEN {Own(join(R, "requirements.txt"), 1, FALSE)} ELSE {})
        \cup (IF feat.pycache # "none" THEN {<<c, Dir>>} ELSE {})
        \cup (IF feat.pycache = "full" THEN {Own(join(c, "m.pyc"), 1, FALSE)} ELSE {})
        \cup (IF feat.venv THEN {<<e, Dir>>, Own(join(e, "lib.py"), 2, FALSE)} ELSE {})
        \cup (IF feat.gomod THEN {Own(join(R, "go.mod"), 1, FALSE)} ELSE {})
        \cup (IF feat.vendor
              THEN {<<v, Dir>>, Own(join(v, "modules.txt"), 1, FALSE)} ELSE {})

InitScan ==
    /\ \/ \E sites \in SUBSET Sites, skip \in SkipLists :
             /\ Cardinality(sites) <= MaxSites
             /\ \E occ \in [sites -> SiteProfiles] : fs = SiteDisk(occ)
             /\ scan_options = [skip |-> skip]
             /\ project_filter = "All"
       \/ \E feat \in Features, filter \in ProjectFilters :
             /\ fs = Tree(BaseDirs \cup Mixed(feat, <<"r", "a">>))
             /\ scan_options = [skip |-> {}]
             /\ project_filter = filter
    /\ fs0 = fs
    /\ trash = {}
    /\ locked = {}
    /\ execution_options = [dry_run |-> FALSE, interactive |-> FALSE,
                            keep_executables |-> FALSE, use_trash |-> FALSE]
    /\ projects = <<>>
    /\ worker = <<>>
    /\ cleaned_size = 0
    /\ errors = <<>>
    /\ summary = NoResult
    /\ scan = ScanIdle
    /\ filter_options = NoFilter
    /\ main = MainIdle
    /\ preserver = PreserveIdle
    /\ sizer = SizeIdle

SpecScan == InitScan /\ [][NextScan]_vars

(***************************************************************************)
(* SpecMain: inner_main from the scan to the end of the cleaning           *)
(***************************************************************************)
MainTemplates == {"RustExe", "Node"}

\* FilterOptions given on the command line: keep_size, keep_days
FilterInputs ==
    {[keep_size |-> <<"0">>, keep_days |-> 0],
     [keep_size |-> <<"5">>, keep_days |-> 0],
     [keep_size |-> <<"0", ".", "0", "0", "5", "k", "b">>, keep_days |-> 0],
     [keep_size |-> <<"1", "K", "B">>, keep_days |-> 0],
     [keep_size |-> <<"5", "B">>, keep_days |-> 0],
     [keep_size |-> <<"0">>, keep_days |-> 1],
     [keep_size |-> <<"4">>, keep_days |-> 2]}

\* project i's build directory was last modified i - 1 days ago
Aged(f, tpl) ==
    [q \in DOMAIN f |->
        IF \E i \in DOMAIN tpl : q = join(Root(i), BuildName(KindOf(tpl[i])))
        THEN [f[q] EXCEPT !.age =
                 (CHOOSE i \in DOMAIN tpl :
                      q = join(Root(i), BuildName(KindOf(tpl[i])))) - 1]
        ELSE f[q]]

InitMain ==
    \E tpl \in [1..NProj -> MainTemplates], dry \in BOOLEAN, inter \in BOOLEAN,
       keep \in BOOLEAN, opts \in FilterInputs, rooted \in BOOLEAN :
        \* at most one of the projects has executables to preserve
        /\ \A i, j \in DOMAIN tpl : tpl[i] = "RustExe" /\ tpl[j] = "RustExe" => i = j
        \* the directory given on the command line exists, or it does not
        /\ fs = IF rooted THEN Aged(Disk(tpl), tpl) ELSE Tree({<<<<"tmp">>, Dir>>})
        /\ fs0 = fs
        /\ trash = {}
        /\ locked = {}
        /\ execution_options = [dry_run |-> dry, interactive |-> inter,
                                keep_executables |-> keep, use_trash |-> FALSE]
        /\ projects = <<>>
        /\ worker = <<>>
        /\ cleaned_size = 0
        /\ errors = <<>>
        /\ summary = NoResult
        /\ scan_options = [skip |-> {}]
        /\ project_filter = "All"
        /\ scan = ScanIdle
        /\ filter_options = opts
        /\ main = [MainIdle EXCEPT !.pc = "scan"]
        /\ preserver = PreserveIdle
        /\ sizer = SizeIdle

SpecMain == InitMain /\ [][NextMain]_vars

(***************************************************************************)
(* Claims about the Cleaner (Spec)                                         *)
(***************************************************************************)
BuildDir(i) == projects[i].build_arts.path

\* project i's build directory existed at the start and cannot be removed
Unremovable(i) == exists(fs0, BuildDir(i)) /\ ~can_remove(fs0, locked, BuildDir(i))

\* K is the one project of the batch whose build directory cannot be removed
OnlyUnremovable(k) ==
    /\ Unremovable(k)
    /\ \A j \in DOMAIN projects : j # k => ~Unremovable(j)

\* C1: when exactly one project K of the batch has a build directory that
\* cannot be removed, the summary reports N-1 successes and exactly one
\* failure, naming K's build path; the total freed is the sum of the sizes the
\* other N-1 build directories had on disk, and every other project was
\* processed to a success.
C1_FailIsolated ==
    summary.tag = "summary" =>
        \A k \in DOMAIN projects :
            OnlyUnremovable(k) =>
                /\ summary.success_count = Len(projects) - 1
                /\ Len(summary.failed) = 1
                /\ summary.failed[1].path = BuildDir(k)
                /\ summary.total_freed =
                       SumOver(DOMAIN projects \ {k},
                               [j \in DOMAIN projects |->
                                   calculate_directory_size(fs0, BuildDir(j))])
                /\ \A j \in DOMAIN projects \ {k} : worker[j].result.tag = "ok"

C1_Witness ==
    /\ summary.tag = "summary"
    /\ \E k \in DOMAIN projects :
          /\ OnlyUnremovable(k)
          /\ \E j \in DOMAIN projects \ {k} :
                /\ projects[j].build_arts.size # calculate_directory_size(fs0, BuildDir(j))
                /\ calculate_directory_size(fs0, BuildDir(j)) > 0

\* C2: once clean_projects has processed the batch, the number of projects
\* reported as succeeded plus the number of recorded failures is the number of
\* projects submitted.
C2_CountsAddUp ==
    summary.tag = "summary" =>
        /\ summary.success_count >= 0
        /\ summary.success_count + Len(summary.failed) = Len(projects)

C2_Witness ==
    /\ summary.tag = "summary"
    /\ Len(summary.failed) >= 1
    /\ summary.success_count >= 1

\* the files project i's build directory held at the start
BuildFiles(i) == {q \in WalkDir(fs0, BuildDir(i)) : fs0[q].type = "file"}

\* q's original content can be fetched back from the trash
InTrash(q) == \E t \in trash : t.path = q /\ t.node = fs0[q]

\* C3: in trash mode a cleaned project's build directory is moved to the
\* platform trash: after a successful clean every file the directory held is
\* retrievable from the trash with its original content.
C3_TrashRecoverable ==
    \A i \in DOMAIN worker :
        (/\ execution_options.use_trash
         /\ worker[i].pc = "done"
         /\ worker[i].result.tag = "ok"
         /\ ~execution_options.keep_executables)
        => \A q \in BuildFiles(i) : InTrash(q)

\* project i's build directory is as it was at the start
Intact(i) == \A q \in WalkDir(fs0, BuildDir(i)) : q \in DOMAIN fs /\ fs[q] = fs0[q]

\* C6: preservation comes strictly before destruction: a step that removes a
\* project's build directory is taken only after the backup loop has gone
\* through every executable found, and a step that copies an executable out of
\* the build directory is taken only while that directory is still untouched.
C6_PreserveBeforeRemove ==
    [][\A i \in DOMAIN worker :
          /\ (exists(fs, BuildDir(i)) /\ ~exists(fs', BuildDir(i)))
                => worker[i].k > Len(worker[i].executables)
          /\ (worker'[i].backed_up # worker[i].backed_up) => Intact(i)]_vars

C6_Witness ==
    \E i \in DOMAIN worker :
        /\ execution_options.keep_executables
        /\ Len(worker[i].backed_up) = 2
        /\ worker[i].pc = "restore"
        /\ ~exists(fs, BuildDir(i))

(***************************************************************************)
(* SpecFilter: filter_projects applied to a list of Projects               *)
(***************************************************************************)
\* filtering.rs 52-64: one call of filter_projects(projects, filter_opts)
FilterProjects ==
    /\ main.pc = "filter"
    /\ LET filtered == filter_projects(fs, projects, filter_options)
       IN  main' = [main EXCEPT
               !.pc = "filtered",
               !.filtered_projects = IF filtered.tag = "ok" THEN filtered.value ELSE <<>>,
               !.result = filtered]
    /\ UNCHANGED <<fs, fs0, trash, locked, execution_options, projects, worker,
                   cleaned_size, errors, summary, scanVars, filter_options, preserver, sizer>>

NextFilter == FilterProjects

FilterCases ==
    FilterInputs \cup
    {[keep_size |-> <<"4">>, keep_days |-> 0],
     [keep_size |-> <<"3">>, keep_days |-> 1],
     [keep_size |-> <<"0">>, keep_days |-> 2]}

\* the projects are those of Spec, among them one whose build directory is
\* gone (no metadata to read); project i's build directory is i - 1 days old;
\* the projects in `empty` were recorded with size 0
InitFilter ==
    \E tpl \in [1..NProj -> Templates], opts \in FilterCases,
       empty \in SUBSET (1..NProj) :
        /\ fs = Aged(Disk(tpl), tpl)
        /\ fs0 = fs
        /\ trash = {}
        /\ locked = {}
        /\ execution_options = [dry_run |-> FALSE, interactive |-> FALSE,
                                keep_executables |-> FALSE, use_trash |-> FALSE]
        /\ projects = [i \in 1..NProj |->
                           IF i \in empty
                           THEN [Submitted(tpl)[i] EXCEPT !.build_arts.size = 0]
                           ELSE Submitted(tpl)[i]]
        /\ worker = <<>>
        /\ cleaned_size = 0
        /\ errors = <<>>
        /\ summary = NoResult
        /\ scan_options = [skip |-> {}]
        /\ project_filter = "All"
        /\ scan = ScanIdle
        /\ filter_options = opts
        /\ main = [MainIdle EXCEPT !.pc = "filter"]
        /\ preserver = PreserveIdle
        /\ sizer = SizeIdle

SpecFilter == InitFilter /\ [][NextFilter]_vars

(***************************************************************************)
(* SpecPreserve: preserve_executables called for one project, then again   *)
(***************************************************************************)
ReleaseNames == {"app", "tool", "libapp.rlib", "app.d"}

RustShapes ==
    [release_dir : BOOLEAN, release : SUBSET ReleaseNames, rlib_exec : BOOLEAN,
     debug : BOOLEAN, nested : BOOLEAN, readonly : BOOLEAN]

\* a Rust project: the files of target/release, target/debug/app and an
\* executable one level further down; target/release/app may be mode 0o555
RustTree(shape, R) ==
    LET t == join(R, "target")
        rel == join(t, "release")
        x(name) == IF name = "libapp.rlib" THEN shape.rlib_exec ELSE name # "app.d"
    IN  {<<R, Dir>>, Own(join(R, "Cargo.toml"), 1, FALSE), <<t, Dir>>}
        \cup (IF shape.release_dir
              THEN {<<rel, Dir>>} \cup
                   {IF name = "app" /\ shape.readonly
                    THEN <<join(rel, name),
                           [File(2, TRUE, join(rel, name)) EXCEPT !.readonly = TRUE]>>
                    ELSE Own(join(rel, name), 2, x(name)) : name \in shape.release}
              ELSE {})
        \cup (IF shape.release_dir /\ shape.nested
              THEN {<<join(rel, "deps"), Dir>>, Own(rel \o <<"deps", "tool">>, 1, TRUE)}
              ELSE {})
        \cup (IF shape.debug
              THEN {<<join(t, "debug"), Dir>>, Own(t \o <<"debug", "app">>, 3, TRUE)}
              ELSE {})

PythonShapes ==
    [dist : SUBSET {"pkg.whl", "notes.txt"}, wheel_is_dir : BOOLEAN,
     build : SUBSET {<<"ext.so">>, <<"lib", "ext.so">>, <<"lib", "mod.pyd">>, <<"m.pyc">>}]

\* a Python project with its dist/ and build/ directories
PythonTree(shape, R) ==
    LET c == join(R, "__pycache__")
        d == join(R, "dist")
        b == join(R, "build")
    IN  {<<R, Dir>>, Own(join(R, "requirements.txt"), 1, FALSE), <<c, Dir>>,
         Own(join(c, "m.pyc"), 1, FALSE), <<d, Dir>>, <<b, Dir>>, <<join(b, "lib"), Dir>>}
        \cup {IF name = "pkg.whl" /\ shape.wheel_is_dir
              THEN <<join(d, name), Dir>>
              ELSE Own(join(d, name), 2, FALSE) : name \in shape.dist}
        \cup {Own(b \o rest, 1, TRUE) : rest \in shape.build}

Obstacles == {"none", "bin_is_file", "destination_is_dir", "late_destination_is_dir",
              "destination_is_file"}

\* what already sits where the copies are to go
Obstacle(kind, ob, R) ==
    LET b == join(R, "bin")
        first == IF kind = "Rust" THEN b \o <<"release", "app">> ELSE join(b, "pkg.whl")
        late == IF kind = "Rust" THEN b \o <<"release", "tool">> ELSE join(b, "ext.so")
        dirs(p) == {<<SubSeq(p, 1, k), Dir>> : k \in (Len(R) + 1)..(Len(p) - 1)}
    IN  CASE ob = "none" -> {}
          [] ob = "bin_is_file" -> {Own(b, 1, FALSE)}
          [] ob = "destination_is_dir" -> dirs(first) \cup {<<first, Dir>>}
          [] ob = "late_destination_is_dir" -> dirs(late) \cup {<<late, Dir>>}
          [] ob = "destination_is_file" -> dirs(first) \cup {Own(first, 5, FALSE)}

InitPreserve ==
    /\ \/ \E shape \in RustShapes, ob \in Obstacles :
            /\ ~shape.release_dir => shape.release = {} /\ ~shape.nested
            /\ "libapp.rlib" \notin shape.release => ~shape.rlib_exec
            /\ "app" \notin shape.release => ~shape.readonly
            /\ fs = Tree(BaseDirs \cup RustTree(shape, Root(1)) \cup Obstacle("Rust", ob, Root(1)))
            /\ projects = <<Project("Rust", Root(1), join(Root(1), "target"), 6)>>
       \/ \E shape \in PythonShapes, ob \in Obstacles :
            /\ "pkg.whl" \notin shape.dist => ~shape.wheel_is_dir
            /\ fs = Tree(BaseDirs \cup PythonTree(shape, Root(1))
                         \cup Obstacle("Python", ob, Root(1)))
            /\ projects = <<Project("Python", Root(1), join(Root(1), "__pycache__"), 1)>>
       \/ \E tpl \in {"Node", "GoExe"} :
            /\ fs = Disk(<<tpl>>)
            /\ projects = Submitted(<<tpl>>)
    /\ fs0 = fs
    /\ trash = {}
    /\ locked = {}
    /\ execution_options = [dry_run |-> FALSE, interactive |-> FALSE,
                            keep_executables |-> TRUE, use_trash |-> FALSE]
    /\ worker = <<>>
    /\ cleaned_size = 0
    /\ errors = <<>>
    /\ summary = NoResult
    /\ scan_options = [skip |-> {}]
    /\ project_filter = "All"
    /\ scan = ScanIdle
    /\ filter_options = NoFilter
    /\ main = MainIdle
    /\ preserver = PreserveIdle
    /\ sizer = SizeIdle

SpecPreserve == InitPreserve /\ [][NextPreserve]_vars

(***************************************************************************)
(* SpecSize: one size computation over a tree that may shrink meanwhile    *)
(***************************************************************************)
SizeShapes ==
    [file : BOOLEAN, nested : BOOLEAN, link : BOOLEAN, closed : BOOLEAN, missing : BOOLEAN]

\* target/ with a file, a file two levels down, a broken link and a
\* directory that cannot be listed
SizeTree(shape, t) ==
    {<<<<"r">>, Dir>>, <<<<"r", "a">>, Dir>>}
    \cup (IF shape.missing THEN {} ELSE {<<t, Dir>>})
    \cup (IF shape.file /\ ~shape.missing THEN {Own(join(t, "app.d"), 2, FALSE)} ELSE {})
    \cup (IF shape.nested /\ ~shape.missing
          THEN {<<join(t, "debug"), Dir>>, Own(t \o <<"debug", "app">>, 3, TRUE)}
          ELSE {})
    \cup (IF shape.link /\ ~shape.missing THEN {<<join(t, "tool"), BrokenLink>>} ELSE {})
    \cup (IF shape.closed /\ ~shape.missing
          THEN {<<join(t, "release"), [Dir EXCEPT !.unreadable = TRUE]>>,
                Own(t \o <<"release", "app">>, 4, TRUE)}
          ELSE {})

InitSize ==
    /\ \E shape \in SizeShapes, which \in {"scanner", "cleaner"} :
          /\ shape.missing => ~(shape.file \/ shape.nested \/ shape.link \/ shape.closed)
          /\ fs = Tree(SizeTree(shape, <<"r", "a", "target">>))
          /\ sizer = [SizeIdle EXCEPT !.which = which, !.path = <<"r", "a", "target">>]
    /\ fs0 = fs
    /\ trash = {}
    /\ locked = {}
    /\ execution_options = [dry_run |-> FALSE, interactive |-> FALSE,
                            keep_executables |-> FALSE, use_trash |-> FALSE]
    /\ projects = <<>>
    /\ worker = <<>>
    /\ cleaned_size = 0
    /\ errors = <<>>
    /\ summary = NoResult
    /\ scan_options = [skip |-> {}]
    /\ project_filter = "All"
    /\ scan = ScanIdle
    /\ filter_options = NoFilter
    /\ main = MainIdle
    /\ preserver = PreserveIdle

SpecSize == InitSize /\ [][NextSize]_vars

(***************************************************************************)
(* Scanner claims, checked under SpecScan                                  *)
(***************************************************************************)
FileBytes(path) ==
    SumOver({q \in DOMAIN fs : IsPrefix(path, q) /\ fs[q].type = "file"},
            [q \in DOMAIN fs |-> fs[q].size])

Classified == scan.pc \in {"sizing", "done"}

ClassifiedAs(d) ==
    {k \in DOMAIN scan.potential_projects : scan.potential_projects[k].root_path = d}

HasRustMarkers(d) == join(d, "Cargo.toml") \in DOMAIN fs /\ join(d, "target") \in DOMAIN fs

HasNodeMarkers(d) ==
    join(d, "package.json") \in DOMAIN fs /\ join(d, "node_modules") \in DOMAIN fs

HasPythonMarkers(d) ==
    /\ \E c \in Range(config_files) : join(d, c) \in DOMAIN fs
    /\ \E b \in Range(build_dirs) :
          /\ join(d, b) \in DOMAIN fs
          /\ fs[join(d, b)].type = "dir"
          /\ FileBytes(join(d, b)) > 0

HasGoMarkers(d) == join(d, "go.mod") \in DOMAIN fs /\ join(d, "vendor") \in DOMAIN fs

Priority == <<"Rust", "Node", "Python", "Go">>

Satisfies(kind, d) ==
    CASE kind = "Rust" -> HasRustMarkers(d)
      [] kind = "Node" -> HasNodeMarkers(d)
      [] kind = "Python" -> HasPythonMarkers(d)
      [] kind = "Go" -> HasGoMarkers(d)

\* the first type, in priority order and among the admitted ones, whose rule d satisfies
FirstMatch(d, admitted) ==
    LET ks == {k \in DOMAIN Priority : Priority[k] \in admitted /\ Satisfies(Priority[k], d)}
    IN  IF ks = {} THEN "none"
        ELSE Priority[CHOOSE k \in ks : \A j \in ks : k <= j]

Admitted == IF project_filter = "All" THEN Range(Priority) ELSE {project_filter}

ScannedDirs == {d \in Range(scan.entries) : fs[d].type = "dir"}

C8_ResultSizesPositive ==
    scan.pc = "done" =>
        /\ \A k \in DOMAIN scan.projects_with_sizes :
              /\ scan.projects_with_sizes[k].build_arts.size > 0
              /\ scan.projects_with_sizes[k].build_arts.size
                   = FileBytes(scan.projects_with_sizes[k].build_arts.path)
        /\ \A k \in DOMAIN scan.potential_projects :
              FileBytes(scan.potential_projects[k].build_arts.path) = 0 =>
                  \A j \in DOMAIN scan.projects_with_sizes :
                      scan.projects_with_sizes[j].root_path
                          # scan.potential_projects[k].root_path

C8_Witness ==
    /\ scan.pc = "done"
    /\ scan.projects_with_sizes # <<>>
    /\ \E k \in DOMAIN scan.potential_projects :
          /\ FileBytes(scan.potential_projects[k].build_arts.path) = 0
          /\ \A j \in DOMAIN scan.projects_with_sizes :
                scan.projects_with_sizes[j].root_path
                    # scan.potential_projects[k].root_path

PrunedByName(d) ==
    \/ Chars(d[Len(d)])[1] = "." /\ d[Len(d)] # ".cargo"
    \/ d[Len(d)] \in excluded_dirs

PrunedBySkip(d) == \E c \in DOMAIN d : d[c] \in scan_options.skip

PrunedByNodeModules(d) == \E c \in DOMAIN d : d[c] = "node_modules"

Pruned(d) == PrunedByName(d) \/ PrunedBySkip(d) \/ PrunedByNodeModules(d)

IsSubstring(a, b) ==
    \E i \in 0..(Len(b) - Len(a)) : SubSeq(b, i + 1, i + Len(a)) = a

Walked == scan.pc # "idle"

\* C10 as stated: an entry is left out of the scan whenever a skip pattern
\* is a substring of one of the components of its path
C10_SubstringSkips ==
    Walked =>
        \A q \in WalkDir(fs, scan_root) :
            (\E sk \in scan_options.skip : \E c \in DOMAIN q :
                 IsSubstring(Chars(sk), Chars(q[c])))
                => q \notin Range(scan.entries)

\* C10 amended: an entry is left out of the scan whenever a skip pattern
\* equals one of the components of its path
C10_ComponentSkips ==
    Walked =>
        \A q \in WalkDir(fs, scan_root) :
            (\E sk \in scan_options.skip : \E c \in DOMAIN q : q[c] = sk)
                => q \notin Range(scan.entries)

C10_Witness ==
    /\ Walked
    /\ scan.entries # <<>>
    /\ \E q \in WalkDir(fs, scan_root) :
          /\ q[Len(q)] \notin scan_options.skip
          /\ ~PrunedByName(q)
          /\ \E c \in DOMAIN q : q[c] \in scan_options.skip
          /\ q \notin Range(scan.entries)

(***************************************************************************)
(* Pipeline claims, checked under SpecMain                                 *)
(***************************************************************************)
Untouched(path) == \A q \in WalkDir(fs0, path) : q \in DOMAIN fs /\ fs[q] = fs0[q]

Deselected ==
    {k \in DOMAIN main.filtered_projects :
        main.filtered_projects[k] \notin Range(main.selection.value)}

\* C4: in an interactive run the projects cleaned are those the user
\* confirmed: the Cleaner is handed exactly the selection, and the build
\* directory of a deselected project is left as it was
C4_OnlySelectedCleaned ==
    (execution_options.interactive /\ main.selection # NoSelection) =>
        /\ main.pc = "clean" => projects = main.selection.value
        /\ \A k \in Deselected :
              Untouched(main.filtered_projects[k].build_arts.path)

\* C5: a dry run scans and filters but never reaches the Cleaner, and never
\* deletes, moves or creates a file or directory
C5_DryRunTouchesNothing ==
    execution_options.dry_run =>
        /\ fs = fs0
        /\ trash = {}
        /\ main.pc # "clean"
        /\ worker = <<>>

C5_Witness ==
    /\ execution_options.dry_run
    /\ main.pc = "returned"
    /\ main.result = Ok(0)
    /\ main.filtered_projects # <<>>
    /\ main.selection = NoSelection \/ main.selection.value # <<>>

(***************************************************************************)
(* Filter claims, checked under SpecFilter                                 *)
(***************************************************************************)
Filtered == main.pc = "filtered" /\ main.result.tag = "ok"

\* the number of bytes each size string of FilterCases stands for
ThresholdBytes ==
    CASE filter_options.keep_size = <<"0">> -> 0
      [] filter_options.keep_size = <<"3">> -> 3
      [] filter_options.keep_size = <<"4">> -> 4
      [] filter_options.keep_size = <<"5">> -> 5
      [] filter_options.keep_size = <<"0", ".", "0", "0", "5", "k", "b">> -> 5
      [] filter_options.keep_size = <<"1", "K", "B">> -> 1000

MetadataUnreadable(i) == projects[i].build_arts.path \notin DOMAIN fs

OldEnough(i) ==
    MetadataUnreadable(i) \/ fs[projects[i].build_arts.path].age >= filter_options.keep_days

Kept(i) == \E k \in DOMAIN main.filtered_projects : main.filtered_projects[k] = projects[i]

\* C11: filter_projects keeps a project exactly when its size is at least the
\* parsed threshold (equality keeps) and keep_days is 0 or the build directory
\* was last modified keep_days days ago or earlier; a project whose build
\* directory's metadata cannot be read passes the age test
C11_FilterPredicate ==
    Filtered =>
        \A i \in DOMAIN projects :
            Kept(i) <=> /\ projects[i].build_arts.size >= ThresholdBytes
                        /\ (filter_options.keep_days = 0 \/ OldEnough(i))

C11_Witness ==
    /\ Filtered
    /\ filter_options.keep_days > 0
    /\ \E i \in DOMAIN projects :
          /\ Kept(i) /\ MetadataUnreadable(i)
          /\ projects[i].build_arts.size = ThresholdBytes
    /\ \E i \in DOMAIN projects : ~Kept(i)

\* C12: with keep_size "0" and keep_days 0 filter_projects returns its input:
\* every project of the input is in the output, none is added, none is changed
C12_FilterIdentity ==
    (Filtered /\ filter_options = NoFilter) =>
        /\ Len(main.filtered_projects) = Len(projects)
        /\ \A i \in DOMAIN projects : Kept(i)
        /\ \A k \in DOMAIN main.filtered_projects :
              main.filtered_projects[k] \in Range(projects)

C12_Witness ==
    /\ Filtered
    /\ filter_options = NoFilter
    /\ main.filtered_projects = projects
    /\ \E i \in DOMAIN projects : projects[i].build_arts.size = 0
    /\ \E i \in DOMAIN projects : MetadataUnreadable(i)

(***************************************************************************)
(* Error-handling claims, checked under SpecMain                           *)
(***************************************************************************)
\* C13: a root directory that does not exist or cannot be read is fatal: the
\* run returns an error to its caller
C13_RootErrorIsFatal ==
    (scan_root \notin DOMAIN fs0 /\ main.pc = "returned") => main.result.tag = "err"

\* the size string of FilterInputs that names no size ("5B": B is not a unit)
Unparsable == filter_options.keep_size = <<"5", "B">>

Preserved == preserve_project
PreservedRoot == Preserved.root_path

\* the names of the model that end in a build-metadata extension
MetadataNames == {"libapp.rlib", "app.d"}

\* source and destination of every file preservation is to copy
RustCandidates ==
    UNION {{<<src, PreservedRoot \o <<"bin", profile, file_name(src)>> >> :
              src \in {q \in DOMAIN fs0 :
                         /\ fs0[q].type = "file"
                         /\ fs0[q].exec
                         /\ file_name(q) \notin MetadataNames
                         /\ parent(q) = PreservedRoot \o <<"target", profile>>}} :
           profile \in {"release", "debug"}}
PythonCandidates ==
    {<<src, PreservedRoot \o <<"bin", file_name(src)>> >> :
        src \in {q \in DOMAIN fs0 :
                   \/ file_name(q) = "pkg.whl" /\ parent(q) = join(PreservedRoot, "dist")
                   \/ /\ fs0[q].type = "file"
                      /\ file_name(q) \in {"ext.so", "mod.pyd"}
                      /\ IsPrefix(join(PreservedRoot, "build"), q)}}
Candidates ==
    CASE Preserved.kind = "Rust" -> RustCandidates
      [] Preserved.kind = "Python" -> PythonCandidates
      [] OTHER -> {}

BinIsFile == join(PreservedRoot, "bin") \in DOMAIN fs0 /\ fs0[join(PreservedRoot, "bin")].type = "file"
\* the copy of this candidate cannot succeed: nothing to read or a directory in the way
CopyFails(c) ==
    \/ fs0[c[1]].type # "file"
    \/ c[2] \in DOMAIN fs0 /\ fs0[c[2]].type = "dir"
FirstRunReturned == preserver.pc = "returned" /\ preserver.run = 1
ACopyFailed == FirstRunReturned /\ ~BinIsFile /\ \E c \in Candidates : CopyFails(c)
RecordedSources == {r.source : r \in Range(preserver.preserved)}
\* a candidate that could have been copied and was never tried
Unattempted(c) ==
    /\ ~CopyFails(c)
    /\ c[1] \notin RecordedSources
    /\ \A q \in DOMAIN fs : fs[q].type = "file" => fs[q].data # fs0[c[1]].data \/ q = c[1]

\* C15 as stated: when a copy fails the other candidates are still copied and
\* the call returns the records of the copies that succeeded
C15_FailureDoesNotAbort ==
    ACopyFailed =>
        /\ preserver.result.tag = "ok"
        /\ \A c \in Candidates : ~CopyFails(c) =>
               \E r \in Range(preserver.result.value) : r.source = c[1]

\* C15, amended: a failed copy ends preservation at once with an error and no
\* records; the failing candidate is the one the loop stopped at, and the disk
\* differs from before only by the directories created and by the copies
\* made before the failure
C15_CopyFailureAborts ==
    ACopyFailed =>
        /\ preserver.result = Err("Failed to copy")
        /\ preserver.todo # <<>>
        /\ \E c \in Candidates : CopyFails(c) /\ c[1] = Head(preserver.todo)
        /\ DOMAIN fs0 \subseteq DOMAIN fs
        /\ \A q \in DOMAIN fs : (q \notin DOMAIN fs0 \/ fs[q] # fs0[q]) =>
               \/ fs[q] = Dir /\ q \notin DOMAIN fs0
               \/ \E r \in Range(preserver.preserved) :
                      r.destination = q /\ fs[q] = fs0[r.source]

\* a copy failed after another had been made and while a third candidate,
\* which could have been copied, was still waiting
C15_Witness ==
    /\ ACopyFailed
    /\ preserver.preserved # <<>>
    /\ \E c \in Candidates : Unattempted(c)

\* C16: for a Node or Go project nothing is preserved: cleaned with
\* keep_executables = true, the whole build directory is gone afterwards, as
\* it is with keep_executables = false.
C16_NodeGoNothingKept ==
    \A i \in DOMAIN projects :
        (/\ projects[i].kind \in {"Node", "Go"}
         /\ i \in DOMAIN worker
         /\ worker[i].result.tag = "ok")
            => \A q \in WalkDir(fs0, BuildDir(i)) : q \notin DOMAIN fs

\* the files directly inside target/<profile> of project i that carry the
\* executable attribute and no build-metadata extension
ProfileExecutables(i, profile) ==
    {q \in DOMAIN fs0 : /\ parent(q) = join(BuildDir(i), profile)
                        /\ fs0[q].type = "file"
                        /\ fs0[q].exec
                        /\ file_name(q) \notin MetadataNames}

\* C17: a Rust project cleaned with keep_executables = true has exactly the
\* executables of target/release and target/debug that carry no metadata
\* extension copied to <root>/bin/<profile>/, and nothing else there.
C17_RustExecutablesInBin ==
    \A i \in DOMAIN projects :
        (/\ projects[i].kind = "Rust"
         /\ execution_options.keep_executables
         /\ i \in DOMAIN worker
         /\ worker[i].result.tag = "ok")
            => \A profile \in {"release", "debug"} :
                 LET dest_dir == projects[i].root_path \o <<"bin", profile>>
                 IN  /\ \A q \in ProfileExecutables(i, profile) :
                            /\ join(dest_dir, file_name(q)) \in DOMAIN fs
                            /\ fs[join(dest_dir, file_name(q))] = fs0[q]
                     /\ \A d \in DOMAIN fs : parent(d) = dest_dir =>
                            \E q \in ProfileExecutables(i, profile) :
                                file_name(q) = file_name(d)

\* C18: when preserve_executables has succeeded for a project and is run once
\* more, the project being unchanged, the second run succeeds too, returns
\* the same records and leaves the disk as the first left it.
C18_SecondRunSame ==
    (/\ preserver.pc = "returned"
     /\ preserver.run = 2
     /\ preserver.first.result.tag = "ok")
        => /\ preserver.result = preserver.first.result
           /\ fs = preserver.first.fs

(***************************************************************************)
(* Claims about the workers of Cleaner::clean_projects, checked under Spec *)
(***************************************************************************)
Succeeded == {i \in DOMAIN worker : worker[i].result.tag = "ok"}
Failed == {i \in DOMAIN worker : worker[i].result.tag = "err"}

\* C19: under every interleaving of the workers no update of the two shared
\* accumulators is lost: after the join the byte total is the sum of the bytes
\* freed by the projects cleaned successfully, and the error list holds
\* exactly one entry for each failed project and no other.
C19_NoLostUpdate ==
    summary.tag = "summary" =>
        /\ summary.total_freed =
               SumOver(Succeeded, [i \in DOMAIN worker |->
                                     IF i \in Succeeded THEN worker[i].result.freed ELSE 0])
        /\ Len(summary.failed) = Cardinality(Failed)
        /\ \A i \in Failed :
               Cardinality({k \in DOMAIN summary.failed :
                               summary.failed[k].path = BuildDir(i)}) = 1

\* two projects were cleaned successfully, each freeing bytes
C19_Witness ==
    /\ summary.tag = "summary"
    /\ \E i, j \in Succeeded :
          i # j /\ worker[i].result.freed > 0 /\ worker[j].result.freed > 0

\* worker i has executables staged: backed up and not yet restored
Staging(i) == worker[i].pc \in {"backup", "remove", "restore"} /\ worker[i].backed_up # <<>>
\* the directories that hold worker i's backups
StagingDirs(i) == {parent(b[1]) : b \in Range(worker[i].backed_up)}

\* C20: two projects cleaned at the same time never stage their backed-up
\* executables in the same temporary directory.
C20_StagingIsolated ==
    \A i, j \in DOMAIN worker :
        (i # j /\ Staging(i) /\ Staging(j)) => StagingDirs(i) \cap StagingDirs(j) = {}

(***************************************************************************)
(* Claims about the order of the stages, checked under SpecMain            *)
(***************************************************************************)
SizingStarted == \E k \in DOMAIN scan.sizes : scan.sizes[k] # Pending
SizingFinished == \A k \in DOMAIN scan.sizes : scan.sizes[k] # Pending
FilterStarted == main.pc \notin {"idle", "scan"}
CleanStarted == \E i \in DOMAIN worker : worker[i].pc # "start"

HiddenName(name) == Chars(name)[1] = "." /\ name # ".cargo"
BelowHidden(d) == \E n \in 1..(Len(d) - 1) : HiddenName(d[n])
Detected(d) ==
    \E j \in DOMAIN scan.projects_with_sizes : scan.projects_with_sizes[j].root_path = d
\* d has the markers of an admitted type and a build directory that holds bytes
Detectable(d) ==
    LET kind == FirstMatch(d, Admitted)
    IN  /\ kind # "none"
        /\ kind = "Python" \/ FileBytes(join(d, BuildName(kind))) > 0
DirsBelowRoot == {d \in WalkDir(fs, scan_root) : fs[d].type = "dir"}

\* C22: a project directory with a non-hidden name inside a hidden directory
\* is detected (when no other rule excludes it), and a project whose own
\* directory name starts with '.', other than .cargo, is not.
C22_HiddenParentNotHiddenRoot ==
    scan.pc = "done" =>
        \A d \in DirsBelowRoot :
            /\ (BelowHidden(d) /\ ~Pruned(d) /\ Detectable(d)) => Detected(d)
            /\ HiddenName(d[Len(d)]) => ~Detected(d)

\* a hidden directory with the markers of a project is left out while the
\* project in its child directory is found
C22_Witness ==
    /\ scan.pc = "done"
    /\ \E d \in DirsBelowRoot :
          /\ Len(d) >= 2
          /\ HiddenName(d[Len(d) - 1])
          /\ Detected(d)
          /\ Detectable(parent(d))
          /\ ~Detected(parent(d))

\* the candidate directories present in d, by their place in the enumeration
PresentCandidates(d) ==
    {k \in DOMAIN build_dirs :
        join(d, build_dirs[k]) \in DOMAIN fs /\ fs[join(d, build_dirs[k])].type = "dir"}
\* the present candidate of greatest total size, the earliest of them on a tie
GreatestCandidate(d) ==
    LET best == CHOOSE k \in PresentCandidates(d) :
                   \A j \in PresentCandidates(d) :
                       \/ FileBytes(join(d, build_dirs[j])) < FileBytes(join(d, build_dirs[k]))
                       \/ FileBytes(join(d, build_dirs[j])) = FileBytes(join(d, build_dirs[k]))
                          /\ k <= j
    IN  join(d, build_dirs[best])
HasPythonConfig(d) == \E c \in Range(config_files) : join(d, c) \in DOMAIN fs
\* the Python rule is the one that decides d
PythonDecides(d) ==
    /\ "Python" \in Admitted
    /\ ~("Rust" \in Admitted /\ HasRustMarkers(d))
    /\ ~("Node" \in Admitted /\ HasNodeMarkers(d))

\* C23: a directory with a Python marker file and at least one directory of
\* the candidate set is classified as Python, and its build artifact is the
\* present candidate of greatest total size, the earliest in the enumeration
\* order on a tie.
C23_PythonLargestCandidate ==
    Classified =>
        \A d \in ScannedDirs :
            (HasPythonConfig(d) /\ PresentCandidates(d) # {} /\ PythonDecides(d)) =>
                /\ ClassifiedAs(d) # {}
                /\ \A k \in ClassifiedAs(d) :
                      /\ scan.potential_projects[k].kind = "Python"
                      /\ scan.potential_projects[k].build_arts.path = GreatestCandidate(d)

(***************************************************************************)
(* Claims about the size computation, checked under SpecSize               *)
(***************************************************************************)
\* C24: the size computed for a build directory is the sum of the sizes of
\* the regular files of its subtree whose metadata could be read: every file
\* that was there, below listable directories, for the whole of the walk is
\* counted, nothing but such files of the original tree is, broken links,
\* unlistable directories and entries deleted meanwhile add nothing, and a
\* directory that does not exist has size 0.
C24_SizeIsSumOfReadableFiles ==
    sizer.pc = "done" =>
        /\ sizer.total_size = SumOver(sizer.counted, [q \in DOMAIN fs0 |-> fs0[q].size])
        /\ sizer.counted \subseteq walked_files(fs0, sizer.path)
        /\ walked_files(fs, sizer.path) \subseteq sizer.counted
        /\ fs = fs0 => sizer.total_size = calculate_build_dir_size(fs0, sizer.path)
        /\ sizer.path \notin DOMAIN fs0 => sizer.total_size = 0

\* a walk that met a broken link and a directory it could not list, lost a
\* file to a deletion and still counted another
C24_Witness ==
    /\ sizer.pc = "done"
    /\ sizer.total_size > 0
    /\ \E q \in DOMAIN fs0 : fs0[q].type = "symlink"
    /\ \E q \in DOMAIN fs0 : fs0[q].unreadable
    /\ walked_files(fs0, sizer.path) \ sizer.counted # {}

(***************************************************************************)
(* Claims about cleaning with keep_executables, checked under Spec         *)
(***************************************************************************)
\* the executables project i's build directory held before the clean: those
\* directly in target/debug and target/release, or in vendor/bin
FoundExecutables(i) ==
    {q \in DOMAIN fs0 :
        /\ fs0[q].type = "file"
        /\ fs0[q].exec
        /\ \/ /\ projects[i].kind = "Rust"
              /\ parent(q) \in {join(BuildDir(i), "debug"), join(BuildDir(i), "release")}
           \/ /\ projects[i].kind = "Go"
              /\ parent(q) = join(BuildDir(i), "bin")}
KeptClean(i) ==
    /\ execution_options.keep_executables
    /\ worker[i].result.tag = "ok"
    /\ FoundExecutables(i) # {}

\* C25: with keep_executables a project is reported as cleaned only if every
\* executable its build directory held is at its original path afterwards.
C25_ExecutablesSurvive ==
    \A i \in DOMAIN worker :
        KeptClean(i) => \A q \in FoundExecutables(i) : q \in DOMAIN fs /\ fs[q].type = "file"

\* C26: after a Rust project has been cleaned with keep_executables, every
\* executable that is back in target/debug or target/release has the content
\* the file at that path had before the clean.
C26_RestoredContent ==
    \A i \in DOMAIN worker :
        (KeptClean(i) /\ projects[i].kind = "Rust") =>
            \A q \in FoundExecutables(i) : q \in DOMAIN fs => fs[q].data = fs0[q].data

\* C27: whenever clean_single_project has returned success for a project, the
\* project's build directory no longer exists, for every project type and for
\* both values of keep_executables.
C27_BuildDirGone ==
    \A i \in Succeeded : BuildDir(i) \notin DOMAIN fs

\* the bytes the clean of project i took off the disk: what its build
\* directory held before, less what it holds now
RemovedBytes(i) ==
    calculate_directory_size(fs0, BuildDir(i)) -
        (IF BuildDir(i) \in DOMAIN fs THEN calculate_directory_size(fs, BuildDir(i)) ELSE 0)

\* C28: the bytes reported as freed for a successfully cleaned project are the
\* bytes its clean removed from disk, the executables kept in place not
\* counted, and the batch total is the sum of those.
C28_FreedIsRemoved ==
    /\ \A i \in Succeeded : worker[i].result.freed = RemovedBytes(i)
    /\ summary.tag = "summary" =>
           summary.total_freed =
               SumOver(Succeeded, [i \in DOMAIN worker |->
                                     IF i \in Succeeded THEN RemovedBytes(i) ELSE 0])

(***************************************************************************)
(* Claims about the result of a scan as a whole, checked under SpecScan    *)
(***************************************************************************)
\* C29: the build directories of distinct Projects in one scan result are
\* pairwise disjoint: no Project's build_arts.path equals or lies inside the
\* build_arts.path of another Project of the same result.
C29_BuildDirsDisjoint ==
    scan.pc = "done" =>
        \A i, j \in DOMAIN scan.projects_with_sizes :
            i # j => ~IsPrefix(scan.projects_with_sizes[i].build_arts.path,
                               scan.projects_with_sizes[j].build_arts.path)

(***************************************************************************)
(* Termination of Cleaner::clean_projects, checked under SpecFair          *)
(***************************************************************************)
WorkerStep(i) ==
    \/ Begin(i) \/ MkTemp(i) \/ Backup(i) \/ Remove(i) \/ Restore(i) \/ RmTemp(i)
    \/ Lock(i) \/ Report(i)
Outcome(i) == worker[i].result.tag \in {"ok", "err"}
AllDone == \A i \in DOMAIN worker : worker[i].pc = "done" /\ Outcome(i)

\* a worker can take its next step whatever the other workers are doing; the
\* one place it blocks is the mutex, and only while a worker that can report
\* and drop the guard holds it
NoWaiting ==
    \A i \in DOMAIN worker :
        /\ worker[i].pc \notin {"report", "done"} => ENABLED WorkerStep(i)
        /\ worker[i].pc = "report" =>
               \/ ENABLED Lock(i)
               \/ \E j \in DOMAIN worker \ {i} :
                      worker[j].pc = "holding" /\ ENABLED Report(j)
\* an outcome, once reached, is the project's outcome for good
OutcomeKept ==
    \A i \in DOMAIN worker : Outcome(i) => worker'[i].result = worker[i].result
\* the summary counts every project once, as cleaned or as failed
SummaryAfterAll ==
    summary.tag = "summary" =>
        /\ AllDone
        /\ summary.success_count = Cardinality(Succeeded)
        /\ Len(summary.failed) = Cardinality(Failed)
        /\ Cardinality(Succeeded) + Cardinality(Failed) = Len(projects)

\* C30: when every file-system operation returns, clean_projects terminates
\* with every submitted project processed exactly once: each project
\* eventually reaches one terminal outcome (cleaned with a byte count or
\* failed with a reason) and keeps it, no worker waits on another project, and
\* the summary is produced, only after all projects have their outcome.
C30_Terminates ==
    /\ <>(summary.tag = "summary")
    /\ \A i \in 1..NProj : <>(worker[i].pc = "done" /\ Outcome(i))
    /\ [](NoWaiting /\ SummaryAfterAll)
    /\ [][OutcomeKept]_vars

\* the summary of a batch that ran to its end, one project cleaned and
\* another failed
C30_Witness ==
    /\ summary.tag = "summary"
    /\ Succeeded # {}
    /\ Failed # {}

====
